---- MODULE Spec2Model ----
(***************************************************************************)
(* Tick-driven strategy evaluation and settlement engine of the           *)
(* Polymarket paper-trading worker (src/live_worker.py), with the bot      *)
(* registry of src/config/bot_configs.py and the persistence table of      *)
(* src/config/persistence_odds.py.                                         *)
(*                                                                         *)
(* Number representation.  Python floats are modelled by exact integers:   *)
(*   - minutes remaining in tenths of a minute (9.0 min -> 90);            *)
(*   - probabilities and edges in thousandths (0.804 -> 804);              *)
(*   - money in units of 1/UnitsPerDollar dollar, the smallest unit in     *)
(*     which bet sizes, fees and profits of the registry are all whole.    *)
(* Specifications.  Spec is the worker's loop on fetched ticks; SpecSolo   *)
(* runs it next to one worker per single bot; SpecProcess is the process   *)
(* of run.py, with fetches that yield nothing and its exit on an           *)
(* interrupt; SpecRounds lets one bot trade window after window;           *)
(* SpecResult, SpecCall apply determine_result, process_tick, settle_trade,*)
(* the bet size and polymarket_fee to inputs drawn in the initial state;   *)
(* SpecMonotone is Spec on a market whose clock runs forward; SpecSnapshot *)
(* is one save_state pass of the worker thread next to one load_state call *)
(* of the dashboard thread (src/web_dashboard.py) on the snapshot file.    *)
(*                                                                         *)
(* Fields of a trade that no decision reads (timestamp, market_id), the    *)
(* console output and the tick log file are left out.                      *)
(***************************************************************************)
EXTENDS Integers, Sequences, FiniteSets, TLC

\* ---------------------------------------------------------------------
\* Bounds of the model
\* ---------------------------------------------------------------------
MaxWindow == 2
MaxTicks == 4
MaxSoloTicks == 3
MaxProcessTicks == 2
MaxRounds == 5
MaxSnapshotTick == 10
\* The number of units of the snapshot file's text that reach the file, or
\* leave it, in one piece (a page of the page cache): a write of more lands
\* page after page, and a read of more is copied page after page, with no
\* lock against the other thread's open(..., 'w') and writes.
ChunkUnits == 4

\* ---------------------------------------------------------------------
\* Units
\* ---------------------------------------------------------------------
\* polymarket_fee returns cents; FeeUnitsPerCent is the scale in which every
\* value of the fee curve at a whole-cent price is a whole number.
FeeUnitsPerCent == 5000
UnitsPerDollar == 100 * FeeUnitsPerCent

None == <<>>
Some(x) == <<x>>
IsSome(o) == o # <<>>
Get(o) == o[1]

Max(a, b) == IF a >= b THEN a ELSE b
Min(a, b) == IF a <= b THEN a ELSE b
Abs(a) == IF a >= 0 THEN a ELSE -a

\* Python int() on a quotient n/d with d > 0: truncation toward zero.
IntTrunc(n, d) == IF n >= 0 THEN n \div d ELSE -((-n) \div d)

\* str.lower() on the two direction / result strings.
Lower(s) == CASE s = "YES" -> "yes"
              [] s = "NO" -> "no"
              [] OTHER -> s

\* ---------------------------------------------------------------------
\* config/persistence_odds.py
\* ---------------------------------------------------------------------
\* minute -> persistence rate in thousandths
PERSISTENCE_BY_MINUTE ==
    [m \in 0..14 |->
        CASE m = 0 -> 560 [] m = 1 -> 626 [] m = 2 -> 684 [] m = 3 -> 732
          [] m = 4 -> 771 [] m = 5 -> 804 [] m = 6 -> 832 [] m = 7 -> 856
          [] m = 8 -> 877 [] m = 9 -> 895 [] m = 10 -> 912 [] m = 11 -> 927
          [] m = 12 -> 941 [] m = 13 -> 954 [] m = 14 -> 968]

get_persistence_rate(minute) ==
    IF minute \in DOMAIN PERSISTENCE_BY_MINUTE
    THEN Some(PERSISTENCE_BY_MINUTE[minute])
    ELSE None

\* ---------------------------------------------------------------------
\* config/bot_configs.py
\* ---------------------------------------------------------------------
\* POLYMARKET_FEE_RATE = 0.02, as a percentage
POLYMARKET_FEE_RATE == 2

\* A fee of the rate times the price, without the factor (1 - p).
polymarket_fee_of_price_only(price_cents) ==
    IF price_cents <= 0 \/ price_cents >= 100
    THEN 0
    ELSE (POLYMARKET_FEE_RATE * price_cents * 100 * FeeUnitsPerCent) \div 10000

\* Fee in cents (scaled by FeeUnitsPerCent) for one contract at price_cents:
\* rate * p * (1 - p) * 100 with p = price_cents / 100 and rate = 2/100.
polymarket_fee(price_cents) ==
    IF price_cents <= 0 \/ price_cents >= 100
    THEN 0
    ELSE (POLYMARKET_FEE_RATE * price_cents * (100 - price_cents)
             * FeeUnitsPerCent) \div 10000

FixedMinuteBot(minute) ==
    [ target_minute |-> minute,
      true_probability |-> PERSISTENCE_BY_MINUTE[minute],
      max_price_cents |-> IntTrunc(PERSISTENCE_BY_MINUTE[minute] * 95, 1000),
      min_edge |-> 30,
      starting_bankroll |-> 1000 * UnitsPerDollar,
      bet_size |-> 10 * UnitsPerDollar,
      scale_with_edge |-> FALSE ]

DynamicEdgeBot(wait_minutes, edge_pct) ==
    [ min_wait_minutes |-> wait_minutes,
      min_edge |-> edge_pct * 10,
      starting_bankroll |-> 1000 * UnitsPerDollar,
      bet_size |-> 10 * UnitsPerDollar,
      scale_with_edge |-> FALSE ]

SentimentBot(odds_threshold, min_wait) ==
    [ odds_threshold |-> odds_threshold,
      min_wait_minutes |-> min_wait,
      starting_bankroll |-> 1000 * UnitsPerDollar,
      bet_size |-> 10 * UnitsPerDollar,
      scale_with_edge |-> FALSE ]

\* The two "scaled betting" entries: no bet_size key (config.get('bet_size', 10)
\* gives 10), base_bet_size 10, max_bet_size 50.
ScaledDynamicEdgeBot(wait_minutes, min_edge) ==
    [ min_wait_minutes |-> wait_minutes,
      min_edge |-> min_edge,
      scale_with_edge |-> TRUE,
      base_bet_size |-> 10 * UnitsPerDollar,
      max_bet_size |-> 50 * UnitsPerDollar,
      starting_bankroll |-> 1000 * UnitsPerDollar,
      bet_size |-> 10 * UnitsPerDollar ]

\* The three series, keyed as in the registry.
FIXED_MINUTE_BOTS ==
    ("fixed_min_1" :> FixedMinuteBot(1)) @@
    ("fixed_min_2" :> FixedMinuteBot(2)) @@
    ("fixed_min_3" :> FixedMinuteBot(3)) @@
    ("fixed_min_4" :> FixedMinuteBot(4)) @@
    ("fixed_min_5" :> FixedMinuteBot(5)) @@
    ("fixed_min_6" :> FixedMinuteBot(6)) @@
    ("fixed_min_7" :> FixedMinuteBot(7)) @@
    ("fixed_min_8" :> FixedMinuteBot(8)) @@
    ("fixed_min_9" :> FixedMinuteBot(9)) @@
    ("fixed_min_10" :> FixedMinuteBot(10)) @@
    ("fixed_min_11" :> FixedMinuteBot(11)) @@
    ("fixed_min_12" :> FixedMinuteBot(12)) @@
    ("fixed_min_13" :> FixedMinuteBot(13))

DYNAMIC_EDGE_BOTS ==
    ("dynamic_wait2_edge5" :> DynamicEdgeBot(2, 5)) @@
    ("dynamic_wait2_edge10" :> DynamicEdgeBot(2, 10)) @@
    ("dynamic_wait2_edge12" :> DynamicEdgeBot(2, 12)) @@
    ("dynamic_wait2_edge15" :> DynamicEdgeBot(2, 15)) @@
    ("dynamic_wait2_edge20" :> DynamicEdgeBot(2, 20)) @@
    ("dynamic_wait2_edge25" :> DynamicEdgeBot(2, 25)) @@
    ("dynamic_wait2_edge30" :> DynamicEdgeBot(2, 30)) @@
    ("dynamic_wait2_edge40" :> DynamicEdgeBot(2, 40)) @@
    ("dynamic_wait3_edge5" :> DynamicEdgeBot(3, 5)) @@
    ("dynamic_wait3_edge10" :> DynamicEdgeBot(3, 10)) @@
    ("dynamic_wait3_edge12" :> DynamicEdgeBot(3, 12)) @@
    ("dynamic_wait3_edge15" :> DynamicEdgeBot(3, 15)) @@
    ("dynamic_wait3_edge20" :> DynamicEdgeBot(3, 20)) @@
    ("dynamic_wait3_edge25" :> DynamicEdgeBot(3, 25)) @@
    ("dynamic_wait3_edge30" :> DynamicEdgeBot(3, 30)) @@
    ("dynamic_wait3_edge40" :> DynamicEdgeBot(3, 40)) @@
    ("dynamic_wait4_edge5" :> DynamicEdgeBot(4, 5)) @@
    ("dynamic_wait4_edge10" :> DynamicEdgeBot(4, 10)) @@
    ("dynamic_wait4_edge12" :> DynamicEdgeBot(4, 12)) @@
    ("dynamic_wait4_edge15" :> DynamicEdgeBot(4, 15)) @@
    ("dynamic_wait4_edge20" :> DynamicEdgeBot(4, 20)) @@
    ("dynamic_wait4_edge25" :> DynamicEdgeBot(4, 25)) @@
    ("dynamic_wait4_edge30" :> DynamicEdgeBot(4, 30)) @@
    ("dynamic_wait4_edge40" :> DynamicEdgeBot(4, 40)) @@
    ("dynamic_wait5_edge5" :> DynamicEdgeBot(5, 5)) @@
    ("dynamic_wait5_edge10" :> DynamicEdgeBot(5, 10)) @@
    ("dynamic_wait5_edge12" :> DynamicEdgeBot(5, 12)) @@
    ("dynamic_wait5_edge15" :> DynamicEdgeBot(5, 15)) @@
    ("dynamic_wait5_edge20" :> DynamicEdgeBot(5, 20)) @@
    ("dynamic_wait5_edge25" :> DynamicEdgeBot(5, 25)) @@
    ("dynamic_wait5_edge30" :> DynamicEdgeBot(5, 30)) @@
    ("dynamic_wait5_edge40" :> DynamicEdgeBot(5, 40)) @@
    ("dynamic_scaled_wait3" :> ScaledDynamicEdgeBot(3, 50)) @@
    ("dynamic_scaled_wait5" :> ScaledDynamicEdgeBot(5, 100))

SENTIMENT_BOTS ==
    ("sentiment_odds55_wait0" :> SentimentBot(55, 0)) @@
    ("sentiment_odds55_wait1" :> SentimentBot(55, 1)) @@
    ("sentiment_odds55_wait2" :> SentimentBot(55, 2)) @@
    ("sentiment_odds55_wait3" :> SentimentBot(55, 3)) @@
    ("sentiment_odds55_wait5" :> SentimentBot(55, 5)) @@
    ("sentiment_odds55_wait7" :> SentimentBot(55, 7)) @@
    ("sentiment_odds55_wait10" :> SentimentBot(55, 10)) @@
    ("sentiment_odds60_wait0" :> SentimentBot(60, 0)) @@
    ("sentiment_odds60_wait1" :> SentimentBot(60, 1)) @@
    ("sentiment_odds60_wait2" :> SentimentBot(60, 2)) @@
    ("sentiment_odds60_wait3" :> SentimentBot(60, 3)) @@
    ("sentiment_odds60_wait5" :> SentimentBot(60, 5)) @@
    ("sentiment_odds60_wait7" :> SentimentBot(60, 7)) @@
    ("sentiment_odds60_wait10" :> SentimentBot(60, 10)) @@
    ("sentiment_odds65_wait0" :> SentimentBot(65, 0)) @@
    ("sentiment_odds65_wait1" :> SentimentBot(65, 1)) @@
    ("sentiment_odds65_wait2" :> SentimentBot(65, 2)) @@
    ("sentiment_odds65_wait3" :> SentimentBot(65, 3)) @@
    ("sentiment_odds65_wait5" :> SentimentBot(65, 5)) @@
    ("sentiment_odds65_wait7" :> SentimentBot(65, 7)) @@
    ("sentiment_odds65_wait10" :> SentimentBot(65, 10)) @@
    ("sentiment_odds70_wait0" :> SentimentBot(70, 0)) @@
    ("sentiment_odds70_wait1" :> SentimentBot(70, 1)) @@
    ("sentiment_odds70_wait2" :> SentimentBot(70, 2)) @@
    ("sentiment_odds70_wait3" :> SentimentBot(70, 3)) @@
    ("sentiment_odds70_wait5" :> SentimentBot(70, 5)) @@
    ("sentiment_odds70_wait7" :> SentimentBot(70, 7)) @@
    ("sentiment_odds70_wait10" :> SentimentBot(70, 10)) @@
    ("sentiment_odds75_wait0" :> SentimentBot(75, 0)) @@
    ("sentiment_odds75_wait1" :> SentimentBot(75, 1)) @@
    ("sentiment_odds75_wait2" :> SentimentBot(75, 2)) @@
    ("sentiment_odds75_wait3" :> SentimentBot(75, 3)) @@
    ("sentiment_odds75_wait5" :> SentimentBot(75, 5)) @@
    ("sentiment_odds75_wait7" :> SentimentBot(75, 7)) @@
    ("sentiment_odds75_wait10" :> SentimentBot(75, 10)) @@
    ("sentiment_odds80_wait0" :> SentimentBot(80, 0)) @@
    ("sentiment_odds80_wait1" :> SentimentBot(80, 1)) @@
    ("sentiment_odds80_wait2" :> SentimentBot(80, 2)) @@
    ("sentiment_odds80_wait3" :> SentimentBot(80, 3)) @@
    ("sentiment_odds80_wait5" :> SentimentBot(80, 5)) @@
    ("sentiment_odds80_wait7" :> SentimentBot(80, 7)) @@
    ("sentiment_odds80_wait10" :> SentimentBot(80, 10)) @@
    ("sentiment_odds85_wait0" :> SentimentBot(85, 0)) @@
    ("sentiment_odds85_wait1" :> SentimentBot(85, 1)) @@
    ("sentiment_odds85_wait2" :> SentimentBot(85, 2)) @@
    ("sentiment_odds85_wait3" :> SentimentBot(85, 3)) @@
    ("sentiment_odds85_wait5" :> SentimentBot(85, 5)) @@
    ("sentiment_odds85_wait7" :> SentimentBot(85, 7)) @@
    ("sentiment_odds85_wait10" :> SentimentBot(85, 10)) @@
    ("sentiment_odds90_wait0" :> SentimentBot(90, 0)) @@
    ("sentiment_odds90_wait1" :> SentimentBot(90, 1)) @@
    ("sentiment_odds90_wait2" :> SentimentBot(90, 2)) @@
    ("sentiment_odds90_wait3" :> SentimentBot(90, 3)) @@
    ("sentiment_odds90_wait5" :> SentimentBot(90, 5)) @@
    ("sentiment_odds90_wait7" :> SentimentBot(90, 7)) @@
    ("sentiment_odds90_wait10" :> SentimentBot(90, 10)) @@
    ("sentiment_odds95_wait0" :> SentimentBot(95, 0)) @@
    ("sentiment_odds95_wait1" :> SentimentBot(95, 1)) @@
    ("sentiment_odds95_wait2" :> SentimentBot(95, 2)) @@
    ("sentiment_odds95_wait3" :> SentimentBot(95, 3)) @@
    ("sentiment_odds95_wait5" :> SentimentBot(95, 5)) @@
    ("sentiment_odds95_wait7" :> SentimentBot(95, 7)) @@
    ("sentiment_odds95_wait10" :> SentimentBot(95, 10)) @@
    ("sentiment_always_favorite" :> SentimentBot(51, 0))

\* ALL_BOTS: every key of a series with s1_, s2_ or s3_ in front.  A bot id is
\* the pair of that prefix and the key, so that get_series can read the prefix.
ALL_BOTS ==
    [ id \in ({<<"s1", k>> : k \in DOMAIN FIXED_MINUTE_BOTS}
               \cup {<<"s2", k>> : k \in DOMAIN DYNAMIC_EDGE_BOTS}
               \cup {<<"s3", k>> : k \in DOMAIN SENTIMENT_BOTS}) |->
        CASE id[1] = "s1" -> FIXED_MINUTE_BOTS[id[2]]
          [] id[1] = "s2" -> DYNAMIC_EDGE_BOTS[id[2]]
          [] id[1] = "s3" -> SENTIMENT_BOTS[id[2]] ]

\* The bots the worker of the model runs: one of each series.
BotIds == {<<"s1", "fixed_min_5">>, <<"s2", "dynamic_wait3_edge5">>, <<"s3", "sentiment_odds55_wait3">>}

\* ---------------------------------------------------------------------
\* LiveBotState
\* ---------------------------------------------------------------------
LiveBotState(bot_id, config) ==
    [ bot_id |-> bot_id,
      config |-> config,
      bankroll |-> config.starting_bankroll,
      initial_bankroll |-> config.starting_bankroll,
      trades |-> <<>>,
      wins |-> 0,
      losses |-> 0,
      total_wagered |-> 0,
      total_fees |-> 0,
      current_streak |-> 0,
      max_win_streak |-> 0,
      max_loss_streak |-> 0,
      pending_trade |-> None,
      traded_windows |-> {},
      last_skip_reason |-> "None" ]

\* Dispatch on the id prefix s1_ / s2_ / s3_ that ALL_BOTS gives each series.
get_series(bot_id) ==
    CASE bot_id[1] = "s1" -> "fixed_minute"
      [] bot_id[1] = "s2" -> "dynamic_edge"
      [] bot_id[1] = "s3" -> "sentiment"
      [] OTHER -> "unknown"

\* get_stats that counts the pending trade as a trade.
get_stats_counting_pending(bot) ==
    [ bot_id |-> bot.bot_id,
      series |-> get_series(bot.bot_id),
      total_trades |-> bot.wins + bot.losses + Len(bot.pending_trade),
      wins |-> bot.wins,
      losses |-> bot.losses,
      bankroll |-> bot.bankroll,
      total_profit |-> bot.bankroll - bot.initial_bankroll,
      total_wagered |-> bot.total_wagered,
      total_fees |-> bot.total_fees,
      current_streak |-> bot.current_streak,
      max_win_streak |-> bot.max_win_streak,
      max_loss_streak |-> bot.max_loss_streak,
      pending |-> IsSome(bot.pending_trade) ]

\* The stats of a bot in the snapshot.  win_rate and roi, two float ratios of
\* the fields below, and the config are left out.
get_stats(bot) ==
    [ bot_id |-> bot.bot_id,
      series |-> get_series(bot.bot_id),
      total_trades |-> bot.wins + bot.losses,
      wins |-> bot.wins,
      losses |-> bot.losses,
      bankroll |-> bot.bankroll,
      total_profit |-> bot.bankroll - bot.initial_bankroll,
      total_wagered |-> bot.total_wagered,
      total_fees |-> bot.total_fees,
      current_streak |-> bot.current_streak,
      max_win_streak |-> bot.max_win_streak,
      max_loss_streak |-> bot.max_loss_streak,
      pending |-> IsSome(bot.pending_trade) ]

\* ---------------------------------------------------------------------
\* Entry decisions.  Each returns the trade_info (None on a skip) and the
\* value it leaves in bot.last_skip_reason.
\* ---------------------------------------------------------------------
Skip(reason) == [trade_info |-> None, last_skip_reason |-> reason]
Enter(direction, price, edge) ==
    [ trade_info |-> Some([direction |-> direction, price |-> price, edge |-> edge]),
      last_skip_reason |-> "None" ]

\* check_fixed_minute_entry without its traded-window guard.
check_fixed_minute_entry_no_window_guard(bot, tick) ==
    LET config == bot.config
        target_mins_left == (14 - config.target_minute) * 10
        is_above == tick.btc_price > tick.strike_price
        price == IF is_above THEN tick.yes_ask ELSE tick.no_ask
        direction == IF is_above THEN "YES" ELSE "NO"
        edge == config.true_probability - price * 10
    IN  IF IsSome(bot.pending_trade) THEN Skip("Already has pending trade")
        ELSE IF ~(target_mins_left - 5 <= tick.mins_left
                  /\ tick.mins_left <= target_mins_left + 5)
             THEN Skip("Waiting for minute")
        ELSE IF price = 0 THEN Skip("No market price available")
        ELSE IF price >= 100 THEN Skip("Price too high")
        ELSE IF edge < config.min_edge THEN Skip("Edge too low")
        ELSE IF price > config.max_price_cents THEN Skip("Price exceeds max")
        ELSE Enter(direction, price, Some(edge))

\* check_fixed_minute_entry that accepts a whole minute either side of the
\* target.
check_fixed_minute_entry_minute_either_side(bot, tick) ==
    LET config == bot.config
        target_minute == config.target_minute
        mins_left == tick.mins_left
        target_mins_left == (14 - target_minute) * 10
        is_above == tick.btc_price > tick.strike_price
        price == IF is_above THEN tick.yes_ask ELSE tick.no_ask
        direction == IF is_above THEN "YES" ELSE "NO"
        edge == config.true_probability - price * 10
    IN  IF IsSome(bot.pending_trade) THEN Skip("Already has pending trade")
        ELSE IF tick.window_id \in bot.traded_windows THEN Skip("Already traded this window")
        ELSE IF ~(target_mins_left - 10 <= mins_left /\ mins_left <= target_mins_left + 10)
             THEN Skip("Waiting for minute")
        ELSE IF price = 0 THEN Skip("No market price available")
        ELSE IF price >= 100 THEN Skip("Price too high")
        ELSE IF edge < config.min_edge THEN Skip("Edge too low")
        ELSE IF price > config.max_price_cents THEN Skip("Price exceeds max")
        ELSE Enter(direction, price, Some(edge))

check_fixed_minute_entry(bot, tick) ==
    LET config == bot.config
        target_minute == config.target_minute
        mins_left == tick.mins_left
        target_mins_left == (14 - target_minute) * 10
        is_above == tick.btc_price > tick.strike_price
        price == IF is_above THEN tick.yes_ask ELSE tick.no_ask
        direction == IF is_above THEN "YES" ELSE "NO"
        edge == config.true_probability - price * 10
    IN  IF IsSome(bot.pending_trade) THEN Skip("Already has pending trade")
        ELSE IF tick.window_id \in bot.traded_windows THEN Skip("Already traded this window")
        ELSE IF ~(target_mins_left - 5 <= mins_left /\ mins_left <= target_mins_left + 5)
             THEN Skip("Waiting for minute")
        ELSE IF price = 0 THEN Skip("No market price available")
        ELSE IF price >= 100 THEN Skip("Price too high")
        ELSE IF edge < config.min_edge THEN Skip("Edge too low")
        ELSE IF price > config.max_price_cents THEN Skip("Price exceeds max")
        ELSE Enter(direction, price, Some(edge))

\* check_dynamic_edge_entry without its refusal of the closing minute.
check_dynamic_edge_entry_no_closing_guard(bot, tick) ==
    LET config == bot.config
        mins_left == tick.mins_left
        min_wait == config.min_wait_minutes
        current_minute == IntTrunc(140 - mins_left, 10)
        true_prob == get_persistence_rate(current_minute)
        is_above == tick.btc_price > tick.strike_price
        price == IF is_above THEN tick.yes_ask ELSE tick.no_ask
        direction == IF is_above THEN "YES" ELSE "NO"
        edge == Get(true_prob) - price * 10
    IN  IF IsSome(bot.pending_trade) THEN Skip("Already has pending trade")
        ELSE IF tick.window_id \in bot.traded_windows THEN Skip("Already traded this window")
        ELSE IF mins_left > (14 - min_wait) * 10 THEN Skip("Waiting before entry")
        ELSE IF current_minute < 1 \/ current_minute > 13 THEN Skip("Invalid minute")
        ELSE IF ~IsSome(true_prob) THEN Skip("No persistence data")
        ELSE IF price = 0 THEN Skip("No market price")
        ELSE IF price >= 100 THEN Skip("Price at 100%")
        ELSE IF edge < config.min_edge THEN Skip("Edge below threshold")
        ELSE Enter(direction, price, Some(edge))

\* check_dynamic_edge_entry that backs the up side when the price equals the strike.
check_dynamic_edge_entry_tie_up(bot, tick) ==
    LET config == bot.config
        mins_left == tick.mins_left
        min_wait == config.min_wait_minutes
        current_minute == IntTrunc(140 - mins_left, 10)
        true_prob == get_persistence_rate(current_minute)
        is_above == tick.btc_price >= tick.strike_price
        price == IF is_above THEN tick.yes_ask ELSE tick.no_ask
        direction == IF is_above THEN "YES" ELSE "NO"
        edge == Get(true_prob) - price * 10
    IN  IF IsSome(bot.pending_trade) THEN Skip("Already has pending trade")
        ELSE IF tick.window_id \in bot.traded_windows THEN Skip("Already traded this window")
        ELSE IF mins_left > (14 - min_wait) * 10 THEN Skip("Waiting before entry")
        ELSE IF mins_left < 10 THEN Skip("Window ending (<1 min left)")
        ELSE IF current_minute < 1 \/ current_minute > 13 THEN Skip("Invalid minute")
        ELSE IF ~IsSome(true_prob) THEN Skip("No persistence data")
        ELSE IF price = 0 THEN Skip("No market price")
        ELSE IF price >= 100 THEN Skip("Price at 100%")
        ELSE IF edge < config.min_edge THEN Skip("Edge below threshold")
        ELSE Enter(direction, price, Some(edge))

check_dynamic_edge_entry(bot, tick) ==
    LET config == bot.config
        mins_left == tick.mins_left
        min_wait == config.min_wait_minutes
        current_minute == IntTrunc(140 - mins_left, 10)
        true_prob == get_persistence_rate(current_minute)
        is_above == tick.btc_price > tick.strike_price
        price == IF is_above THEN tick.yes_ask ELSE tick.no_ask
        direction == IF is_above THEN "YES" ELSE "NO"
        edge == Get(true_prob) - price * 10
    IN  IF IsSome(bot.pending_trade) THEN Skip("Already has pending trade")
        ELSE IF tick.window_id \in bot.traded_windows THEN Skip("Already traded this window")
        ELSE IF mins_left > (14 - min_wait) * 10 THEN Skip("Waiting before entry")
        ELSE IF mins_left < 10 THEN Skip("Window ending (<1 min left)")
        ELSE IF current_minute < 1 \/ current_minute > 13 THEN Skip("Invalid minute")
        ELSE IF ~IsSome(true_prob) THEN Skip("No persistence data")
        ELSE IF price = 0 THEN Skip("No market price")
        ELSE IF price >= 100 THEN Skip("Price at 100%")
        ELSE IF edge < config.min_edge THEN Skip("Edge below threshold")
        ELSE Enter(direction, price, Some(edge))

\* check_sentiment_entry without its pending-trade guard.
check_sentiment_entry_no_pending_guard(bot, tick) ==
    LET config == bot.config
        mins_left == tick.mins_left
        threshold == config.odds_threshold
        direction == IF tick.yes_ask >= threshold THEN "YES" ELSE "NO"
        price == IF tick.yes_ask >= threshold THEN tick.yes_ask ELSE tick.no_ask
    IN  IF tick.window_id \in bot.traded_windows THEN Skip("Already traded this window")
        ELSE IF mins_left > (14 - config.min_wait_minutes) * 10 THEN Skip("Waiting")
        ELSE IF mins_left < 5 THEN Skip("Window ending (<30 sec left)")
        ELSE IF tick.yes_ask = 0 \/ tick.no_ask = 0 THEN Skip("No market prices")
        ELSE IF ~(tick.yes_ask >= threshold) /\ ~(tick.no_ask >= threshold)
             THEN Skip("No strong sentiment")
        ELSE IF price >= 100 THEN Skip("Price at 100%")
        ELSE Enter(direction, price, None)

\* check_sentiment_entry without its refusal of a price of 100 or more.
check_sentiment_entry_no_price_cap(bot, tick) ==
    LET config == bot.config
        mins_left == tick.mins_left
        min_wait == config.min_wait_minutes
        yes_price == tick.yes_ask
        no_price == tick.no_ask
        threshold == config.odds_threshold
        direction == IF yes_price >= threshold THEN "YES" ELSE "NO"
        price == IF yes_price >= threshold THEN yes_price ELSE no_price
    IN  IF IsSome(bot.pending_trade) THEN Skip("Already has pending trade")
        ELSE IF tick.window_id \in bot.traded_windows THEN Skip("Already traded this window")
        ELSE IF mins_left > (14 - min_wait) * 10 THEN Skip("Waiting")
        ELSE IF mins_left < 5 THEN Skip("Window ending (<30 sec left)")
        ELSE IF yes_price = 0 \/ no_price = 0 THEN Skip("No market prices")
        ELSE IF ~(yes_price >= threshold) /\ ~(no_price >= threshold)
             THEN Skip("No strong sentiment")
        ELSE Enter(direction, price, None)

\* check_sentiment_entry without its refusal of the last 30 seconds.
check_sentiment_entry_no_closing_guard(bot, tick) ==
    LET config == bot.config
        mins_left == tick.mins_left
        min_wait == config.min_wait_minutes
        yes_price == tick.yes_ask
        no_price == tick.no_ask
        threshold == config.odds_threshold
        direction == IF yes_price >= threshold THEN "YES" ELSE "NO"
        price == IF yes_price >= threshold THEN yes_price ELSE no_price
    IN  IF IsSome(bot.pending_trade) THEN Skip("Already has pending trade")
        ELSE IF tick.window_id \in bot.traded_windows THEN Skip("Already traded this window")
        ELSE IF mins_left > (14 - min_wait) * 10 THEN Skip("Waiting")
        ELSE IF yes_price = 0 \/ no_price = 0 THEN Skip("No market prices")
        ELSE IF ~(yes_price >= threshold) /\ ~(no_price >= threshold)
             THEN Skip("No strong sentiment")
        ELSE IF price >= 100 THEN Skip("Price at 100%")
        ELSE Enter(direction, price, None)

check_sentiment_entry(bot, tick) ==
    LET config == bot.config
        mins_left == tick.mins_left
        min_wait == config.min_wait_minutes
        yes_price == tick.yes_ask
        no_price == tick.no_ask
        threshold == config.odds_threshold
        direction == IF yes_price >= threshold THEN "YES" ELSE "NO"
        price == IF yes_price >= threshold THEN yes_price ELSE no_price
    IN  IF IsSome(bot.pending_trade) THEN Skip("Already has pending trade")
        ELSE IF tick.window_id \in bot.traded_windows THEN Skip("Already traded this window")
        ELSE IF mins_left > (14 - min_wait) * 10 THEN Skip("Waiting")
        ELSE IF mins_left < 5 THEN Skip("Window ending (<30 sec left)")
        ELSE IF yes_price = 0 \/ no_price = 0 THEN Skip("No market prices")
        ELSE IF ~(yes_price >= threshold) /\ ~(no_price >= threshold)
             THEN Skip("No strong sentiment")
        ELSE IF price >= 100 THEN Skip("Price at 100%")
        ELSE Enter(direction, price, None)

\* ---------------------------------------------------------------------
\* Trade ledger
\* ---------------------------------------------------------------------
\* The bet size without the clamp of the scale to [0, 1].
bet_size_of_unclamped(config, trade_info) ==
    IF config.scale_with_edge /\ IsSome(trade_info.edge) /\ Get(trade_info.edge) # 0
    THEN LET edge == Get(trade_info.edge)
             base == config.base_bet_size
             max_bet == config.max_bet_size
         IN  base + (edge - 100) * ((max_bet - base) \div 200)
    ELSE config.bet_size

\* bet_size of execute_trade.  With scale_with_edge and an edge that is
\* neither None nor 0: base + min(1, max(0, (edge - 0.10) / 0.20)) * (max - base).
bet_size_of(config, trade_info) ==
    IF config.scale_with_edge /\ IsSome(trade_info.edge) /\ Get(trade_info.edge) # 0
    THEN LET edge == Get(trade_info.edge)
             base == config.base_bet_size
             max_bet == config.max_bet_size
             \* scale in 1/200: (edge - 100) / 200 clamped to [0, 1]
             scale200 == Min(200, Max(0, edge - 100))
         IN  base + scale200 * ((max_bet - base) \div 200)
    ELSE config.bet_size

\* The pending_trade dict execute_trade builds.
Position(config, tick, trade_info) ==
    LET price == trade_info.price
        bet_size == bet_size_of(config, trade_info)
        fee == polymarket_fee(price)
        \* int(bet_size / (price / 100)), bet_size in dollars
        contracts == IntTrunc(bet_size, price * (UnitsPerDollar \div 100))
    IN  [ window_id |-> tick.window_id,
          strike |-> tick.strike_price,
          btc_price |-> tick.btc_price,
          mins_left |-> tick.mins_left,
          direction |-> trade_info.direction,
          entry_price |-> price,
          contracts |-> contracts,
          bet_size |-> bet_size,
          \* fee * contracts / 100: cents to dollars
          fee |-> (fee * contracts) * (UnitsPerDollar \div (100 * FeeUnitsPerCent)),
          edge |-> trade_info.edge ]

\* execute_trade that also takes the stake out of the bankroll.
execute_trade_debiting_bankroll(bot, tick, trade_info) ==
    LET pos == Position(bot.config, tick, trade_info)
    IN  [bot EXCEPT
            !.pending_trade = Some(pos),
            !.bankroll = bot.bankroll - pos.bet_size,
            !.total_wagered = bot.total_wagered + pos.bet_size,
            !.traded_windows = bot.traded_windows \cup {tick.window_id}]

\* execute_trade that does not record the window as traded.
execute_trade_not_marking_window(bot, tick, trade_info) ==
    LET pos == Position(bot.config, tick, trade_info)
    IN  [bot EXCEPT
            !.pending_trade = Some(pos),
            !.total_wagered = bot.total_wagered + pos.bet_size]

execute_trade(bot, tick, trade_info) ==
    LET pos == Position(bot.config, tick, trade_info)
    IN  [bot EXCEPT
            !.pending_trade = Some(pos),
            !.total_wagered = bot.total_wagered + pos.bet_size,
            !.traded_windows = bot.traded_windows \cup {tick.window_id}]

\* The record settle_trade appends to bot.trades.
SettledTrade(trade, won, profit, bankroll_after) ==
    [ window_id |-> trade.window_id,
      strike |-> trade.strike,
      btc_price |-> trade.btc_price,
      mins_left |-> trade.mins_left,
      direction |-> trade.direction,
      entry_price |-> trade.entry_price,
      contracts |-> trade.contracts,
      bet_size |-> trade.bet_size,
      fee |-> trade.fee,
      edge |-> trade.edge,
      outcome |-> IF won THEN "win" ELSE "loss",
      profit |-> profit,
      bankroll_after |-> bankroll_after ]

\* The body of settle_trade for a bot that has a pending trade.
settle_pending(bot, result) ==
    LET trade == Get(bot.pending_trade)
        won == (Lower(trade.direction) = Lower(result))
        profit == IF won
                  THEN trade.contracts * UnitsPerDollar - trade.bet_size - trade.fee
                  ELSE -trade.bet_size - trade.fee
        streak == IF won
                  THEN Max(0, bot.current_streak) + 1
                  ELSE Min(0, bot.current_streak) - 1
    IN  [bot EXCEPT
            !.wins = IF won THEN bot.wins + 1 ELSE bot.wins,
            !.losses = IF won THEN bot.losses ELSE bot.losses + 1,
            !.current_streak = streak,
            !.max_win_streak = IF won THEN Max(bot.max_win_streak, streak)
                               ELSE bot.max_win_streak,
            !.max_loss_streak = IF won THEN bot.max_loss_streak
                                ELSE Max(bot.max_loss_streak, Abs(streak)),
            !.bankroll = bot.bankroll + profit,
            !.total_fees = bot.total_fees + trade.fee,
            !.trades = Append(bot.trades,
                              SettledTrade(trade, won, profit, bot.bankroll + profit)),
            !.pending_trade = None]

\* settle_trade that leaves the fee out of the profit of a won trade.
settle_trade_win_ignores_fee(bot, result) ==
    IF ~IsSome(bot.pending_trade) THEN bot
    ELSE
    LET trade == Get(bot.pending_trade)
        won == (Lower(trade.direction) = Lower(result))
        profit == IF won
                  THEN trade.contracts * UnitsPerDollar - trade.bet_size
                  ELSE -trade.bet_size - trade.fee
        streak == IF won
                  THEN Max(0, bot.current_streak) + 1
                  ELSE Min(0, bot.current_streak) - 1
    IN  [bot EXCEPT
            !.wins = IF won THEN bot.wins + 1 ELSE bot.wins,
            !.losses = IF won THEN bot.losses ELSE bot.losses + 1,
            !.current_streak = streak,
            !.max_win_streak = IF won THEN Max(bot.max_win_streak, streak)
                               ELSE bot.max_win_streak,
            !.max_loss_streak = IF won THEN bot.max_loss_streak
                                ELSE Max(bot.max_loss_streak, Abs(streak)),
            !.bankroll = bot.bankroll + profit,
            !.total_fees = bot.total_fees + trade.fee,
            !.trades = Append(bot.trades,
                              SettledTrade(trade, won, profit, bot.bankroll + profit)),
            !.pending_trade = None]

\* settle_trade that takes a bot without a pending trade out of its streak.
settle_trade_idle_ends_streak(bot, result) ==
    IF ~IsSome(bot.pending_trade) THEN [bot EXCEPT !.current_streak = 0]
    ELSE settle_pending(bot, result)

\* settle_trade that puts the new trade at the head of the history.
settle_trade_prepending(bot, result) ==
    IF ~IsSome(bot.pending_trade) THEN bot
    ELSE LET done == settle_pending(bot, result)
         IN  [done EXCEPT !.trades = <<done.trades[Len(done.trades)]>> \o bot.trades]

\* settle_trade that counts on from the old streak when the outcome turns.
settle_trade_streak_not_reset(bot, result) ==
    IF ~IsSome(bot.pending_trade) THEN bot
    ELSE LET done == settle_pending(bot, result)
             won == done.wins > bot.wins
             streak == IF won THEN bot.current_streak + 1
                       ELSE bot.current_streak - 1
         IN  [done EXCEPT
                !.current_streak = streak,
                !.max_win_streak = IF won THEN Max(bot.max_win_streak, streak)
                                   ELSE bot.max_win_streak,
                !.max_loss_streak = IF won THEN bot.max_loss_streak
                                    ELSE Max(bot.max_loss_streak, Abs(streak))]

\* settle_trade that adds the fee to total_fees for a won trade only.
settle_trade_fee_of_wins_only(bot, result) ==
    IF ~IsSome(bot.pending_trade) THEN bot
    ELSE LET done == settle_pending(bot, result)
         IN  [done EXCEPT
                !.total_fees = IF done.wins > bot.wins THEN done.total_fees
                               ELSE bot.total_fees]

settle_trade(bot, result) ==
    IF ~IsSome(bot.pending_trade) THEN bot
    ELSE settle_pending(bot, result)

\* What settle_trade returns: the settled trade, or None.
settle_trade_returns(bot, result) ==
    IF ~IsSome(bot.pending_trade) THEN None
    ELSE LET done == settle_trade(bot, result)
         IN  Some(done.trades[Len(done.trades)])

\* ---------------------------------------------------------------------
\* LiveWorker
\* ---------------------------------------------------------------------
VARIABLES
    bots,             \* LiveWorker.bots: bot_id -> LiveBotState
    tick_count,       \* TickLogger.tick_count
    current_window,   \* LiveWorker.current_window
    settled_windows,  \* LiveWorker.settled_windows
    window_strikes,   \* LiveWorker.window_strikes: window_id -> strike
    last_tick,        \* LiveWorker.last_tick (the stamped tick)
    last_window,      \* local last_window of run()
    dr_tick,          \* argument of a stand-alone determine_result call
    dr_result,        \* what that call returned
    call_op,          \* name of a function called on its own
    call_args,        \* the arguments of that call
    call_result,      \* what that call returned
    solo,             \* bot_id -> a LiveWorker whose bots dict holds that bot only
    last_fetch,       \* what get_market_tick returned in the latest cycle of run()
    state_file,       \* the engine as save_state last read it to write STATE_FILE
    mode,             \* sys.argv[1] of run.py: "worker" or "both"
    process,          \* "up" while the Python process lives, then "exited"
    shutdown_passes,  \* number of calls of LiveWorker.shutdown
    window_clock,     \* window_id -> mins_left of the market's latest tick of that id
    file_text,        \* the text of STATE_FILE on disk, None while there is no file
    snapshots,        \* the state dicts of the save_state passes: old (if any), new
    save_pc,          \* where a save_state pass is in its write of STATE_FILE
    load_pc,          \* where a load_state call of the dashboard is
    load_text,        \* what the read of that call has taken from the file so far
    load_result       \* what that call returned

engine_vars == <<bots, tick_count, current_window, settled_windows,
                 window_strikes, last_tick, last_window>>
dr_vars == <<dr_tick, dr_result>>
call_vars == <<call_op, call_args, call_result>>
other_vars == <<bots, tick_count, current_window, settled_windows,
                window_strikes, last_tick, last_window, dr_tick, dr_result,
                call_op, call_args, call_result, solo, last_fetch, state_file,
                mode, process, shutdown_passes, window_clock>>
file_vars == <<file_text, snapshots, save_pc, load_pc, load_text, load_result>>
proc_vars == <<last_fetch, state_file, mode, process, shutdown_passes,
               window_clock, file_vars>>
vars == <<bots, tick_count, current_window, settled_windows,
          window_strikes, last_tick, last_window, dr_tick, dr_result,
          call_op, call_args, call_result, solo,
          last_fetch, state_file, mode, process, shutdown_passes,
          window_clock, file_text, snapshots, save_pc, load_pc, load_text,
          load_result>>

\* Ticks get_market_tick can hand to the worker.  strike_price is always 0
\* in a fetched tick; the worker stamps it.
WindowIds == 1..MaxWindow
MinsLeftValues == {3, 5, 90}
BtcPrices == {100, 101}
AskPairs == {<<60, 40>>, <<0, 100>>}

get_market_tick ==
    { [ window_id |-> w, strike_price |-> 0, mins_left |-> m,
        btc_price |-> p, yes_ask |-> a[1], no_ask |-> a[2] ] :
        w \in WindowIds, m \in MinsLeftValues, p \in BtcPrices, a \in AskPairs }

\* The policy process_tick calls for a bot, by its series.
check_entry(bot, tick) ==
    CASE get_series(bot.bot_id) = "fixed_minute" -> check_fixed_minute_entry(bot, tick)
      [] get_series(bot.bot_id) = "dynamic_edge" -> check_dynamic_edge_entry(bot, tick)
      [] get_series(bot.bot_id) = "sentiment" -> check_sentiment_entry(bot, tick)
      [] OTHER -> [trade_info |-> None, last_skip_reason |-> bot.last_skip_reason]

\* process_tick that stops at the first bot that trades: the bots of the
\* series after it in ALL_BOTS are not checked on this tick.
process_tick_stopping_at_first_trade(bs, tick) ==
    [ bot_id \in DOMAIN bs |->
        LET bot == bs[bot_id]
            rank(id) == CASE get_series(id) = "fixed_minute" -> 1
                          [] get_series(id) = "dynamic_edge" -> 2
                          [] OTHER -> 3
            stopped == \E other \in DOMAIN bs :
                          /\ rank(other) < rank(bot_id)
                          /\ IsSome(check_entry(bs[other], tick).trade_info)
            decision == check_entry(bot, tick)
            checked == [bot EXCEPT !.last_skip_reason = decision.last_skip_reason]
        IN  IF stopped THEN bot
            ELSE IF IsSome(decision.trade_info)
            THEN execute_trade(checked, tick, Get(decision.trade_info))
            ELSE checked ]

\* process_tick that records the window of a skipped tick as traded.
process_tick_marking_skipped_window(bs, tick) ==
    [ bot_id \in DOMAIN bs |->
        LET bot == bs[bot_id]
            decision == check_entry(bot, tick)
            checked == [bot EXCEPT !.last_skip_reason = decision.last_skip_reason]
        IN  IF IsSome(decision.trade_info)
            THEN execute_trade(checked, tick, Get(decision.trade_info))
            ELSE [checked EXCEPT !.traded_windows = @ \cup {tick.window_id}] ]

process_tick(bs, tick) ==
    [ bot_id \in DOMAIN bs |->
        LET bot == bs[bot_id]
            decision == check_entry(bot, tick)
            checked == [bot EXCEPT !.last_skip_reason = decision.last_skip_reason]
        IN  IF IsSome(decision.trade_info)
            THEN execute_trade(checked, tick, Get(decision.trade_info))
            ELSE checked ]

\* settle_window without the check of the settled set.
settle_window_unguarded(bs, settled, window_id, result) ==
    [ bots |->
        [ bot_id \in DOMAIN bs |->
            IF IsSome(bs[bot_id].pending_trade)
               /\ Get(bs[bot_id].pending_trade).window_id = window_id
            THEN settle_trade(bs[bot_id], result)
            ELSE bs[bot_id] ],
      settled_windows |-> settled \cup {window_id} ]

\* settle_window that records the window as settled only when it settled a trade.
settle_window_marks_only_with_trades(bs, settled, window_id, result) ==
    IF window_id \in settled
    THEN [bots |-> bs, settled_windows |-> settled]
    ELSE [ bots |->
             [ bot_id \in DOMAIN bs |->
                 IF IsSome(bs[bot_id].pending_trade)
                    /\ Get(bs[bot_id].pending_trade).window_id = window_id
                 THEN settle_trade(bs[bot_id], result)
                 ELSE bs[bot_id] ],
           settled_windows |->
             IF \E bot_id \in DOMAIN bs :
                    /\ IsSome(bs[bot_id].pending_trade)
                    /\ Get(bs[bot_id].pending_trade).window_id = window_id
             THEN settled \cup {window_id}
             ELSE settled ]

\* settle_window that settles every pending trade, of whatever window.
settle_window_settling_every_pending(bs, settled, window_id, result) ==
    IF window_id \in settled
    THEN [bots |-> bs, settled_windows |-> settled]
    ELSE [ bots |-> [ bot_id \in DOMAIN bs |-> settle_trade(bs[bot_id], result) ],
           settled_windows |-> settled \cup {window_id} ]

\* Returns the bots and the settled set after the call.
settle_window(bs, settled, window_id, result) ==
    IF window_id \in settled
    THEN [bots |-> bs, settled_windows |-> settled]
    ELSE [ bots |->
             [ bot_id \in DOMAIN bs |->
                 IF IsSome(bs[bot_id].pending_trade)
                    /\ Get(bs[bot_id].pending_trade).window_id = window_id
                 THEN settle_trade(bs[bot_id], result)
                 ELSE bs[bot_id] ],
           settled_windows |-> settled \cup {window_id} ]

\* determine_result that gives the tie to the up side.
determine_result_tie_up(tick) ==
    IF tick.mins_left > 5 THEN None
    ELSE IF tick.btc_price >= tick.strike_price THEN Some("YES")
    ELSE Some("NO")

determine_result(tick) ==
    IF tick.mins_left > 5 THEN None
    ELSE IF tick.btc_price > tick.strike_price THEN Some("YES")
    ELSE Some("NO")

\* The strike map after the new-window detection and the stamping of run().
track_strike(strikes, current, tick) ==
    LET detected == IF Some(tick.window_id) # current
                    THEN (tick.window_id :> tick.btc_price) @@ strikes
                    ELSE strikes
    IN  IF tick.window_id \in DOMAIN detected
        THEN detected
        ELSE (tick.window_id :> tick.btc_price) @@ detected

\* The fields of a LiveWorker the loop of run() reads and writes.
LiveWorker(bs, settled, strikes, current) ==
    [ bots |-> bs, settled_windows |-> settled,
      window_strikes |-> strikes, current_window |-> current ]

\* stamped_tick that keeps a strike embedded in the fetched tick's own
\* strike_price field, whatever it is, when the window is already tracked.
stamped_tick_keeping_embedded_strike(worker, fetched) ==
    IF Some(fetched.window_id) = worker.current_window
    THEN fetched
    ELSE [fetched EXCEPT !.strike_price = fetched.btc_price]

\* The tick an iteration works on: the fetched tick stamped with the strike.
stamped_tick(worker, fetched) ==
    [fetched EXCEPT !.strike_price =
        track_strike(worker.window_strikes, worker.current_window,
                     fetched)[fetched.window_id]]

\* run() settling the window as soon as less than one minute remains.
run_iteration_settling_below_one_minute(worker, fetched) ==
    LET window_id == fetched.window_id
        strikes == track_strike(worker.window_strikes, worker.current_window, fetched)
        tick == stamped_tick(worker, fetched)
        processed == process_tick(worker.bots, tick)
        result == determine_result(tick)
        settled == IF tick.mins_left < 10 /\ IsSome(result)
                   THEN settle_window(processed, worker.settled_windows,
                                      window_id, Get(result))
                   ELSE [bots |-> processed,
                         settled_windows |-> worker.settled_windows]
    IN  LiveWorker(settled.bots, settled.settled_windows, strikes, Some(window_id))

\* The worker after one iteration of the loop of run() on a valid tick.
run_iteration(worker, fetched) ==
    LET window_id == fetched.window_id
        strikes == track_strike(worker.window_strikes, worker.current_window, fetched)
        tick == stamped_tick(worker, fetched)
        processed == process_tick(worker.bots, tick)
        result == determine_result(tick)
        settled == IF tick.mins_left < 5 /\ IsSome(result)
                   THEN settle_window(processed, worker.settled_windows,
                                      window_id, Get(result))
                   ELSE [bots |-> processed,
                         settled_windows |-> worker.settled_windows]
    IN  LiveWorker(settled.bots, settled.settled_windows, strikes, Some(window_id))

\* What get_market_tick returns for a tick: a dict whose mins_left may be
\* None (parse_market_data could not read the end time).
TickDict(tick) == [tick EXCEPT !.mins_left = Some(tick.mins_left)]
InvalidTicks ==
    { [ window_id |-> w, strike_price |-> 0, mins_left |-> None,
        btc_price |-> 100, yes_ask |-> 60, no_ask |-> 40 ] : w \in WindowIds }
Fetches == {None} \cup {Some(TickDict(tick)) : tick \in get_market_tick}
               \cup {Some(dict) : dict \in InvalidTicks}
ValidTick(dict) == [dict EXCEPT !.mins_left = Get(dict.mins_left)]

\* What the loop of run() carries from one cycle to the next.
Engine(worker, ticks, market, window) ==
    [ worker |-> worker, tick_count |-> ticks, last_tick |-> market,
      last_window |-> window ]

\* run_cycle that detects the window before it validates the tick.
run_cycle_validating_late(engine, fetch) ==
    IF ~IsSome(fetch) THEN engine
    ELSE IF ~IsSome(Get(fetch).mins_left)
    THEN [engine EXCEPT !.worker.current_window = Some(Get(fetch).window_id)]
    ELSE LET tick == ValidTick(Get(fetch))
         IN  Engine(run_iteration(engine.worker, tick),
                    engine.tick_count + 1,
                    Some(stamped_tick(engine.worker, tick)),
                    Some(tick.window_id))

\* One cycle of the loop of run(): no tick and a tick without mins_left
\* reach `continue`; a valid tick is logged, stamped and processed.
run_cycle(engine, fetch) ==
    IF ~IsSome(fetch) THEN engine
    ELSE IF ~IsSome(Get(fetch).mins_left) THEN engine
    ELSE LET tick == ValidTick(Get(fetch))
         IN  Engine(run_iteration(engine.worker, tick),
                    engine.tick_count + 1,
                    Some(stamped_tick(engine.worker, tick)),
                    Some(tick.window_id))

\* The dict save_state writes to STATE_FILE (last_update, runtime_seconds
\* and the static name, description and config of a bot left out).
save_state(engine) ==
    [ windows_processed |-> Cardinality(engine.worker.settled_windows),
      current_window |-> engine.worker.current_window,
      market |-> engine.last_tick,
      tick_count |-> engine.tick_count,
      bots |-> [ bot_id \in DOMAIN engine.worker.bots |->
                   [ stats |-> get_stats(engine.worker.bots[bot_id]),
                     trade_history |-> engine.worker.bots[bot_id].trades,
                     pending_trade |-> engine.worker.bots[bot_id].pending_trade,
                     last_skip_reason |->
                         engine.worker.bots[bot_id].last_skip_reason ] ] ]

\* trades_settled of settle_window when the cycle on `fetch` reaches it
\* (0 when it does not): settle_window saves the state when it is positive.
trades_settled(engine, fetch) ==
    IF ~IsSome(fetch) THEN 0
    ELSE IF ~IsSome(Get(fetch).mins_left) THEN 0
    ELSE LET tick == stamped_tick(engine.worker, ValidTick(Get(fetch)))
             processed == process_tick(engine.worker.bots, tick)
         IN  IF tick.mins_left < 5 /\ IsSome(determine_result(tick))
                /\ tick.window_id \notin engine.worker.settled_windows
             THEN Cardinality({ bot_id \in DOMAIN processed :
                     /\ IsSome(processed[bot_id].pending_trade)
                     /\ Get(processed[bot_id].pending_trade).window_id
                            = tick.window_id })
             ELSE 0

\* One cycle of the loop of run() with its writes of STATE_FILE: by
\* settle_window, and by print_status when the status log is due
\* (status_due: STATUS_LOG_INTERVAL seconds have passed since the last one;
\* last_status_log starts at 0, so the first call is always due).  Where
\* the one-bot workers of solo exist, each of them gets the same fetch.
Cycle(fetch, status_due) ==
    /\ process = "up"
    /\ tick_count < MaxTicks
    /\ \E engine \in {Engine(LiveWorker(bots, settled_windows, window_strikes,
                                        current_window),
                             tick_count, last_tick, last_window)} :
       \E after \in {run_cycle(engine, fetch)} :
        /\ last_fetch' = fetch
        /\ tick_count' = after.tick_count
        /\ last_tick' = after.last_tick
        /\ window_strikes' = after.worker.window_strikes
        /\ current_window' = after.worker.current_window
        /\ bots' = after.worker.bots
        /\ settled_windows' = after.worker.settled_windows
        /\ last_window' = after.last_window
        /\ state_file' =
             IF after.tick_count # engine.tick_count
                /\ (status_due \/ engine.tick_count = 0
                    \/ trades_settled(engine, fetch) > 0)
             THEN Some(after)
             ELSE state_file
        /\ solo' = [bot_id \in DOMAIN solo |->
                      run_cycle(Engine(solo[bot_id], 0, None, None), fetch).worker]
        /\ UNCHANGED <<dr_vars, call_vars, mode, process, shutdown_passes>>

\* One iteration of the loop of run() that fetched a valid tick, the status
\* log being due.
RunTick(fetched) ==
    /\ Cycle(Some(TickDict(fetched)), TRUE)
    /\ UNCHANGED <<window_clock, file_vars>>

\* The process as run.py starts it in mode m, before the first cycle.
Started(m) ==
    /\ last_fetch = None
    /\ state_file = None
    /\ mode = m
    /\ process = "up"
    /\ shutdown_passes = 0
    /\ window_clock = [window_id \in WindowIds |-> None]
    /\ file_text = None
    /\ snapshots = None
    /\ save_pc = "idle"
    /\ load_pc = "idle"
    /\ load_text = <<>>
    /\ load_result = None

Init ==
    /\ bots = [bot_id \in BotIds |-> LiveBotState(bot_id, ALL_BOTS[bot_id])]
    /\ tick_count = 0
    /\ current_window = None
    /\ settled_windows = {}
    /\ window_strikes = <<>>
    /\ last_tick = None
    /\ last_window = None
    /\ dr_tick = None
    /\ dr_result = None
    /\ call_op = "None"
    /\ call_args = None
    /\ call_result = None
    /\ solo = <<>>
    /\ Started("worker")

\* The worker polling a market that always yields a valid tick, at
\* intervals of STATUS_LOG_INTERVAL seconds or more.
Next == \E fetched \in get_market_tick : RunTick(fetched)

Spec == Init /\ [][Next]_vars

\* The worker polling a market whose clock runs forward: mins_left is the
\* time from now to the market's end date, so a tick of a window id never
\* reports more minutes than the tick of that id before it.
MonotoneTick(fetched) ==
    /\ IF IsSome(window_clock[fetched.window_id])
       THEN fetched.mins_left <= Get(window_clock[fetched.window_id])
       ELSE TRUE
    /\ Cycle(Some(TickDict(fetched)), TRUE)
    /\ window_clock' = [window_clock EXCEPT
                            ![fetched.window_id] = Some(fetched.mins_left)]
    /\ UNCHANGED file_vars

NextMonotone == \E fetched \in get_market_tick : MonotoneTick(fetched)

SpecMonotone == Init /\ [][NextMonotone]_vars

\* ---------------------------------------------------------------------
\* The worker next to one worker per bot: each worker of solo is a
\* LiveWorker whose bots dict holds a single bot, and every tick the worker
\* ingests is ingested by each of them too (RunTick).
\* ---------------------------------------------------------------------
InitSolo ==
    /\ bots = [bot_id \in BotIds |-> LiveBotState(bot_id, ALL_BOTS[bot_id])]
    /\ tick_count = 0
    /\ current_window = None
    /\ settled_windows = {}
    /\ window_strikes = <<>>
    /\ last_tick = None
    /\ last_window = None
    /\ dr_tick = None
    /\ dr_result = None
    /\ call_op = "None"
    /\ call_args = None
    /\ call_result = None
    /\ solo = [ bot_id \in BotIds |->
                  LiveWorker(bot_id :> LiveBotState(bot_id, ALL_BOTS[bot_id]),
                             {}, <<>>, None) ]
    /\ Started("worker")

\* The workers side by side ingest at most MaxSoloTicks ticks.
NextSolo == tick_count < MaxSoloTicks /\ Next

SpecSolo == InitSolo /\ [][NextSolo]_vars

\* ---------------------------------------------------------------------
\* The process of run.py from its start to its exit, in worker-only mode
\* (run() in the main thread) and in combined mode (run() in a daemon
\* thread, the dashboard in the main thread): cycles with any fetch result
\* and any timing of the status log, and an interrupt from the keyboard,
\* which Python raises as KeyboardInterrupt in the main thread.
\* ---------------------------------------------------------------------
\* The content of STATE_FILE (bot_state.json): the dict of the latest
\* save_state pass, None while the file does not exist.
STATE_FILE ==
    IF IsSome(state_file) THEN Some(save_state(Get(state_file))) ELSE None

\* shutdown that settles the pending positions as lost before it saves.
shutdown_settling_pending(engine) ==
    LET closed == [engine EXCEPT !.worker.bots =
                     [ bot_id \in DOMAIN engine.worker.bots |->
                         settle_trade(engine.worker.bots[bot_id],
                           IF IsSome(engine.worker.bots[bot_id].pending_trade)
                              /\ Get(engine.worker.bots[bot_id].pending_trade).direction
                                   = "YES"
                           THEN "NO" ELSE "YES") ] ]
    IN  [engine |-> closed, state_file |-> Some(closed)]

\* LiveWorker.shutdown: the engine and STATE_FILE after the call.
shutdown(engine) ==
    [engine |-> engine, state_file |-> Some(engine)]

\* KeyboardInterrupt in worker-only mode: the main thread is in the try
\* block of run(), which calls shutdown() and leaves the loop; main returns.
Shutdown ==
    /\ process = "up"
    /\ mode = "worker"
    /\ \E after \in {shutdown(Engine(LiveWorker(bots, settled_windows,
                                               window_strikes, current_window),
                                    tick_count, last_tick, last_window))} :
        /\ tick_count' = after.engine.tick_count
        /\ last_tick' = after.engine.last_tick
        /\ last_window' = after.engine.last_window
        /\ window_strikes' = after.engine.worker.window_strikes
        /\ current_window' = after.engine.worker.current_window
        /\ bots' = after.engine.worker.bots
        /\ settled_windows' = after.engine.worker.settled_windows
        /\ state_file' = after.state_file
    /\ shutdown_passes' = shutdown_passes + 1
    /\ process' = "exited"
    /\ UNCHANGED <<dr_vars, call_vars, solo, last_fetch, mode, window_clock,
                   file_vars>>

\* KeyboardInterrupt in combined mode: the main thread is in the dashboard's
\* app.run, which returns; main returns and the daemon thread that runs
\* run() ends with the process, wherever it is.
DashboardExit ==
    /\ process = "up"
    /\ mode = "both"
    /\ process' = "exited"
    /\ UNCHANGED <<engine_vars, dr_vars, call_vars, solo, last_fetch,
                   state_file, mode, shutdown_passes, window_clock, file_vars>>

InitProcess ==
    /\ bots = [bot_id \in BotIds |-> LiveBotState(bot_id, ALL_BOTS[bot_id])]
    /\ tick_count = 0
    /\ current_window = None
    /\ settled_windows = {}
    /\ window_strikes = <<>>
    /\ last_tick = None
    /\ last_window = None
    /\ dr_tick = None
    /\ dr_result = None
    /\ call_op = "None"
    /\ call_args = None
    /\ call_result = None
    /\ solo = <<>>
    /\ \E m \in {"worker", "both"} : Started(m)

\* The process ingests at most MaxProcessTicks ticks.
PollCycle ==
    /\ tick_count < MaxProcessTicks
    /\ \E fetch \in Fetches, status_due \in BOOLEAN : Cycle(fetch, status_due)
    /\ UNCHANGED <<window_clock, file_vars>>

NextProcess == PollCycle \/ Shutdown \/ DashboardExit

SpecProcess == InitProcess /\ [][NextProcess]_vars

\* ---------------------------------------------------------------------
\* determine_result called on its own, on ticks the worker's loop never
\* passes to it (any mins_left, any strike).
\* ---------------------------------------------------------------------
DRPrices == {99, 100, 101}
DRMinsLeft == {-10, 0, 3, 4, 5, 6, 90}
DRTicks ==
    { [ window_id |-> 1, strike_price |-> k, mins_left |-> m,
        btc_price |-> p, yes_ask |-> 60, no_ask |-> 40 ] :
        k \in DRPrices, m \in DRMinsLeft, p \in DRPrices }

InitResult ==
    /\ bots = [bot_id \in BotIds |-> LiveBotState(bot_id, ALL_BOTS[bot_id])]
    /\ tick_count = 0
    /\ current_window = None
    /\ settled_windows = {}
    /\ window_strikes = <<>>
    /\ last_tick = None
    /\ last_window = None
    /\ dr_tick \in {Some(t) : t \in DRTicks}
    /\ dr_result = None
    /\ call_op = "None"
    /\ call_args = None
    /\ call_result = None
    /\ solo = <<>>
    /\ Started("worker")

CallDetermineResult ==
    /\ IsSome(dr_tick)
    /\ dr_result = None
    /\ dr_result' = Some(determine_result(Get(dr_tick)))
    /\ UNCHANGED <<engine_vars, dr_tick, call_vars, solo, proc_vars>>

SpecResult == InitResult /\ [][CallDetermineResult]_vars

\* ---------------------------------------------------------------------
\* process_tick for one bot, the bet size of execute_trade and
\* polymarket_fee, each called on its own on inputs the worker of Spec does
\* not reach within its bounds: any bot of the call sample, any minute of the
\* window, asks of 0, 100 and above.
\* ---------------------------------------------------------------------
CallBotIds ==
    { <<"s1", "fixed_min_1">>, <<"s1", "fixed_min_5">>, <<"s1", "fixed_min_13">>,
      <<"s2", "dynamic_wait3_edge5">>, <<"s2", "dynamic_wait2_edge20">>, <<"s2", "dynamic_wait5_edge40">>,
      <<"s2", "dynamic_scaled_wait3">>, <<"s2", "dynamic_scaled_wait5">>,
      <<"s3", "sentiment_odds55_wait3">>, <<"s3", "sentiment_odds70_wait0">>,
      <<"s3", "sentiment_odds95_wait10">>, <<"s3", "sentiment_always_favorite">> }
\* mins_left in tenths of a minute: every half minute from 1.5 to 16, and
\* the values around the 0.5 and 1.0 limits.
CallMinsLeft == {-5, 0, 4, 5, 6, 9, 10, 11} \cup {5 * k : k \in 3..32}
CallAskPairs ==
    { <<60, 40>>, <<40, 60>>, <<72, 30>>, <<30, 72>>, <<50, 50>>,
      <<76, 24>>, <<77, 23>>, <<78, 22>>, <<1, 99>>, <<99, 1>>,
      <<0, 100>>, <<100, 0>>, <<0, 80>>, <<100, 80>>, <<101, 70>>,
      <<60, 70>> }
CallStrike == 100
CallBtcPrices == {99, 100, 101}

\* A stamped tick as run() passes it to process_tick.
CallTick(window_id, mins_left, btc_price, asks) ==
    [ window_id |-> window_id, strike_price |-> CallStrike, mins_left |-> mins_left,
      btc_price |-> btc_price, yes_ask |-> asks[1], no_ask |-> asks[2] ]

CallTicks ==
    { CallTick(1, m, p, a) : m \in CallMinsLeft, p \in CallBtcPrices, a \in CallAskPairs }

\* States a bot can be in when its tick arrives: new; holding a Position of
\* the tick's window (1) or of another window (2); having settled one.  The
\* Position is the one the bot itself takes on a tick of that window.
EntryTick(bot_id, window_id) ==
    CHOOSE t \in { CallTick(window_id, m, 101, a) :
                      m \in CallMinsLeft, a \in {<<50, 50>>, <<99, 1>>} } :
        IsSome(check_entry(LiveBotState(bot_id, ALL_BOTS[bot_id]), t).trade_info)

CallBotStates(bot_id) ==
    LET new == LiveBotState(bot_id, ALL_BOTS[bot_id])
        holding(w) == process_tick(bot_id :> new, EntryTick(bot_id, w))[bot_id]
    IN  { new, holding(1), holding(2),
          settle_trade(holding(1), "YES"), settle_trade(holding(2), "NO") }

\* Every bot of the registry as the worker creates it, and the ticks of the
\* last half minute of a window and of its limit 0.5.
RegistryBots == { LiveBotState(bot_id, ALL_BOTS[bot_id]) : bot_id \in DOMAIN ALL_BOTS }
ClosingTicks ==
    { CallTick(1, m, p, a) :
        m \in {-5, 0, 4, 5}, p \in CallBtcPrices, a \in CallAskPairs }

\* The bots dict of the worker with each of its bots in any of these states.
CallBotDicts ==
    { bs \in [BotIds -> UNION {CallBotStates(i) : i \in BotIds}] :
        \A bot_id \in BotIds : bs[bot_id].bot_id = bot_id }

\* Edges in thousandths handed to the bet size: -0.05 to 0.45, and no edge.
CallEdges == {None} \cup {Some(e) : e \in -50..450}
CallConfigIds ==
    { <<"s2", "dynamic_scaled_wait3">>, <<"s2", "dynamic_scaled_wait5">>,
      <<"s2", "dynamic_wait3_edge5">>, <<"s1", "fixed_min_5">>, <<"s3", "sentiment_odds55_wait3">> }
CallPrices == 0..100

InitCall ==
    /\ bots = [bot_id \in BotIds |-> LiveBotState(bot_id, ALL_BOTS[bot_id])]
    /\ tick_count = 0
    /\ current_window = None
    /\ settled_windows = {}
    /\ window_strikes = <<>>
    /\ last_tick = None
    /\ last_window = None
    /\ dr_tick = None
    /\ dr_result = None
    /\ solo = <<>>
    /\ Started("worker")
    /\ call_result = None
    /\ \/ /\ call_op = "process_tick"
          /\ call_args \in { [bot |-> b, tick |-> t] :
                                b \in UNION {CallBotStates(i) : i \in CallBotIds},
                                t \in CallTicks }
       \/ /\ call_op = "process_tick"
          /\ call_args \in { [bot |-> b, tick |-> t] :
                                b \in RegistryBots, t \in ClosingTicks }
       \/ /\ call_op = "bet_size"
          /\ call_args \in { [config |-> ALL_BOTS[i], edge |-> e] :
                                i \in CallConfigIds, e \in CallEdges }
       \/ /\ call_op = "polymarket_fee"
          /\ call_args \in { [price_cents |-> p] : p \in CallPrices }
       \/ /\ call_op = "settle_trade"
          /\ call_args \in { [bot |-> b, result |-> r] :
                                b \in UNION {CallBotStates(i) : i \in CallBotIds},
                                r \in {"YES", "NO"} }
       \/ /\ call_op = "settle_window"
          /\ call_args \in { [bots |-> bs, settled_windows |-> settled,
                               window_id |-> w, result |-> r] :
                                bs \in CallBotDicts, settled \in SUBSET {1, 2},
                                w \in {1, 2}, r \in {"YES", "NO"} }

\* process_tick of a worker whose bots dict holds the one bot: the decision
\* of the bot's policy and the bot after the call.
CallProcessTick ==
    /\ call_op = "process_tick"
    /\ call_result = None
    /\ call_result' =
          Some([ decision |-> check_entry(call_args.bot, call_args.tick).trade_info,
                 bot |-> process_tick(call_args.bot.bot_id :> call_args.bot,
                                      call_args.tick)[call_args.bot.bot_id] ])
    /\ UNCHANGED <<engine_vars, dr_vars, call_op, call_args, solo, proc_vars>>

\* The bet size execute_trade computes for a decision of the given edge.
CallBetSize ==
    /\ call_op = "bet_size"
    /\ call_result = None
    /\ call_result' =
          Some(bet_size_of(call_args.config,
                           [direction |-> "YES", price |-> 50, edge |-> call_args.edge]))
    /\ UNCHANGED <<engine_vars, dr_vars, call_op, call_args, solo, proc_vars>>

CallPolymarketFee ==
    /\ call_op = "polymarket_fee"
    /\ call_result = None
    /\ call_result' = Some(polymarket_fee(call_args.price_cents))
    /\ UNCHANGED <<engine_vars, dr_vars, call_op, call_args, solo, proc_vars>>

\* settle_trade called on a bot in any of its states: what it returns and
\* the bot after the call.
CallSettleTrade ==
    /\ call_op = "settle_trade"
    /\ call_result = None
    /\ call_result' =
          Some([ trade |-> settle_trade_returns(call_args.bot, call_args.result),
                 bot |-> settle_trade(call_args.bot, call_args.result) ])
    /\ UNCHANGED <<engine_vars, dr_vars, call_op, call_args, solo, proc_vars>>

\* settle_window called on a worker whose bots are in any of their states:
\* the bots and the settled set after the call.
CallSettleWindow ==
    /\ call_op = "settle_window"
    /\ call_result = None
    /\ call_result' =
          Some(settle_window(call_args.bots, call_args.settled_windows,
                             call_args.window_id, call_args.result))
    /\ UNCHANGED <<engine_vars, dr_vars, call_op, call_args, solo, proc_vars>>

NextCall ==
    \/ CallProcessTick \/ CallBetSize \/ CallPolymarketFee
    \/ CallSettleTrade \/ CallSettleWindow

SpecCall == InitCall /\ [][NextCall]_vars

\* ---------------------------------------------------------------------
\* One bot trading window after window: process_tick on a tick of a new
\* window on which the bot enters, then settle_window of that window with
\* either result, up to MaxRounds times.
\* ---------------------------------------------------------------------
InitRounds ==
    /\ \E bot_id \in BotIds :
          bots = (bot_id :> LiveBotState(bot_id, ALL_BOTS[bot_id]))
    /\ tick_count = 0
    /\ current_window = None
    /\ settled_windows = {}
    /\ window_strikes = <<>>
    /\ last_tick = None
    /\ last_window = None
    /\ dr_tick = None
    /\ dr_result = None
    /\ call_op = "None"
    /\ call_args = None
    /\ call_result = None
    /\ solo = <<>>
    /\ Started("worker")

TradeRound(result) ==
    /\ Cardinality(settled_windows) < MaxRounds
    /\ \E bot_id \in DOMAIN bots :
       \E window_id \in {Cardinality(settled_windows) + 1} :
       \E after \in {settle_window(process_tick(bots, EntryTick(bot_id, window_id)),
                                   settled_windows, window_id, result)} :
        /\ bots' = after.bots
        /\ settled_windows' = after.settled_windows
    /\ UNCHANGED <<tick_count, current_window, window_strikes, last_tick,
                   last_window, dr_vars, call_vars, solo, proc_vars>>

NextRounds == \E result \in {"YES", "NO"} : TradeRound(result)

SpecRounds == InitRounds /\ [][NextRounds]_vars

\* ---------------------------------------------------------------------
\* The snapshot file between the worker thread and the dashboard thread
\* ---------------------------------------------------------------------
\* The text of the file is a sequence of units: the punctuation of JSON,
\* one unit per decimal digit and one per quoted key.  White space, which
\* json.loads skips, and the other keys of the state dict are left out.
DigitChars == <<"0", "1", "2", "3", "4", "5", "6", "7", "8", "9">>
SnapshotKeys == {"windows_processed", "tick_count"}

RECURSIVE Digits(_)
\* The decimal digits of n >= 0, as json.dump writes an int.
Digits(n) ==
    IF n < 10 THEN <<DigitChars[n + 1]>>
    ELSE Digits(n \div 10) \o <<DigitChars[(n % 10) + 1]>>

\* json.dump(state, f): the text of the state dict.
json_dump(state) ==
    <<"{", "windows_processed", ":">> \o Digits(state.windows_processed)
        \o <<",", "tick_count", ":">> \o Digits(state.tick_count) \o <<"}">>

IsDigit(c) == \E d \in 1..10 : DigitChars[d] = c
DigitOf(c) == (CHOOSE d \in 1..10 : DigitChars[d] = c) - 1

RECURSIVE NumberEnd(_, _)
\* The index of the last digit of the run of digits that starts at index i
\* of text (i - 1 if there is none).
NumberEnd(text, i) ==
    IF i <= Len(text) /\ IsDigit(text[i]) THEN NumberEnd(text, i + 1) ELSE i - 1

RECURSIVE DigitsValue(_)
DigitsValue(digits) ==
    IF digits = <<>> THEN 0
    ELSE 10 * DigitsValue(SubSeq(digits, 1, Len(digits) - 1))
         + DigitOf(digits[Len(digits)])

RECURSIVE ParseMembers(_, _, _)
\* The members of a JSON object from index i of text up to its closing
\* brace, which must end the text: Some(dict), or None where json.loads
\* raises JSONDecodeError.  A key that comes twice keeps its last value.
ParseMembers(text, i, dict) ==
    IF i + 2 > Len(text) THEN None
    ELSE IF text[i] \notin SnapshotKeys \/ text[i + 1] # ":" THEN None
    ELSE LET j == NumberEnd(text, i + 2)
         IN  IF j < i + 2 \/ j + 1 > Len(text) THEN None
             \* JSON has no numbers with a leading zero
             ELSE IF j > i + 2 /\ text[i + 2] = "0" THEN None
             ELSE LET value == DigitsValue(SubSeq(text, i + 2, j))
                      next == [k \in DOMAIN dict \cup {text[i]} |->
                                  IF k = text[i] THEN value ELSE dict[k]]
                  IN  IF text[j + 1] = "}"
                      THEN IF j + 1 = Len(text) THEN Some(next) ELSE None
                      ELSE IF text[j + 1] = ","
                      THEN ParseMembers(text, j + 2, next)
                      ELSE None

\* json.load(f) on the text read from the file, inside load_state's try:
\* the dict, or None for the exception load_state catches.
json_load(text) ==
    IF Len(text) < 2 \/ text[1] # "{" THEN None
    ELSE IF text = <<"{", "}">> THEN Some(<<>>)
    ELSE ParseMembers(text, 2, <<>>)

\* The state dicts save_state passes build: the size of the settled set and
\* the tick count.
Snapshots ==
    [ windows_processed : 0..1,
      tick_count : (MaxSnapshotTick - 2)..MaxSnapshotTick ]

\* open(STATE_FILE, 'w'): the file is created or cut to length 0.
SaveOpen ==
    /\ save_pc = "idle"
    /\ file_text' = Some(<<>>)
    /\ save_pc' = "writing"
    /\ UNCHANGED <<snapshots, load_pc, load_text, load_result,
                   other_vars>>

\* json.dump: the next page of the text reaches the file.
SaveWrite ==
    /\ save_pc = "writing"
    /\ \E text \in {json_dump(snapshots.new)}, written \in {Len(Get(file_text))} :
        /\ written < Len(text)
        /\ file_text' = Some(Get(file_text)
                             \o SubSeq(text, written + 1,
                                       Min(written + ChunkUnits, Len(text))))
    /\ UNCHANGED <<snapshots, save_pc, load_pc, load_text, load_result,
                   other_vars>>

\* The with block of save_state ends: the whole text is in the file.
SaveClose ==
    /\ save_pc = "writing"
    /\ Get(file_text) = json_dump(snapshots.new)
    /\ save_pc' = "done"
    /\ UNCHANGED <<file_text, snapshots, load_pc, load_text, load_result,
                   other_vars>>

\* open(STATE_FILE, 'r') of load_state: FileNotFoundError makes it return None.
LoadOpen ==
    /\ load_pc = "idle"
    /\ IF IsSome(file_text)
       THEN load_pc' = "reading" /\ load_result' = load_result
       ELSE load_pc' = "done" /\ load_result' = None
    /\ UNCHANGED <<file_text, snapshots, save_pc, load_text,
                   other_vars>>

\* f.read() of json.load: the next page of the file, from the offset the
\* read has reached, is copied out.
LoadRead ==
    /\ load_pc = "reading"
    /\ \E offset \in {Len(load_text)}, size \in {Len(Get(file_text))} :
        /\ offset < size
        /\ load_text' = load_text
                          \o SubSeq(Get(file_text), offset + 1,
                                    Min(offset + ChunkUnits, size))
    /\ UNCHANGED <<file_text, snapshots, save_pc, load_pc, load_result,
                   other_vars>>

\* The read finds nothing at its offset (end of file): json.load parses
\* what was read and load_state returns the dict, or None on an exception.
LoadParse ==
    /\ load_pc = "reading"
    /\ Len(load_text) >= Len(Get(file_text))
    /\ load_result' = json_load(load_text)
    /\ load_pc' = "done"
    /\ UNCHANGED <<file_text, snapshots, save_pc, load_text,
                   other_vars>>

\* Combined mode of run.py: the worker thread is about to run a save_state
\* pass, on no file yet or on the file an earlier pass wrote in full, and
\* the dashboard thread is about to call load_state.
InitSnapshot ==
    /\ bots = [bot_id \in BotIds |-> LiveBotState(bot_id, ALL_BOTS[bot_id])]
    /\ tick_count = 0
    /\ current_window = None
    /\ settled_windows = {}
    /\ window_strikes = <<>>
    /\ last_tick = None
    /\ last_window = None
    /\ dr_tick = None
    /\ dr_result = None
    /\ call_op = "None"
    /\ call_args = None
    /\ call_result = None
    /\ solo = <<>>
    /\ last_fetch = None
    /\ state_file = None
    /\ mode = "both"
    /\ process = "up"
    /\ shutdown_passes = 0
    /\ window_clock = [window_id \in WindowIds |-> None]
    /\ snapshots \in { [old |-> old, new |-> new] :
                         old \in {None} \cup { Some(state) : state \in Snapshots },
                         new \in Snapshots }
    /\ IsSome(snapshots.old) =>
          /\ Get(snapshots.old).tick_count < snapshots.new.tick_count
          /\ Get(snapshots.old).windows_processed <= snapshots.new.windows_processed
    /\ file_text = IF IsSome(snapshots.old)
                   THEN Some(json_dump(Get(snapshots.old)))
                   ELSE None
    /\ save_pc = "idle"
    /\ load_pc = "idle"
    /\ load_text = <<>>
    /\ load_result = None

NextSnapshot ==
    \/ SaveOpen
    \/ SaveWrite
    \/ SaveClose
    \/ LoadOpen
    \/ LoadRead
    \/ LoadParse

SpecSnapshot == InitSnapshot /\ [][NextSnapshot]_vars

\* ---------------------------------------------------------------------
\* Properties
\* ---------------------------------------------------------------------
\* execute_trade ran for bot b in this step: only it raises total_wagered,
\* and every bet is positive.
Executed(b) == bots'[b].total_wagered # bots[b].total_wagered
\* settle_trade settled a pending trade of bot b in this step.
SettledNow(b) == Len(bots'[b].trades) > Len(bots[b].trades)
LastTrade(bot) == bot.trades[Len(bot.trades)]
\* The fields of a settled trade that it shares with the pending trade.
PositionOf(trade) ==
    [ f \in {"window_id", "strike", "btc_price", "mins_left", "direction",
             "entry_price", "contracts", "bet_size", "fee", "edge"} |-> trade[f] ]

RECURSIVE SumProfit(_)
SumProfit(trades) ==
    IF trades = <<>> THEN 0
    ELSE trades[1].profit + SumProfit(Tail(trades))

\* C1: a strategy holds at most one pending Position; a step never applies
\* Execute to a strategy that holds one, and a pending Position either stays
\* as it is or is removed by Settle, which appends it to the history.
C1_AtMostOnePending ==
    /\ [](\A b \in BotIds : Len(bots[b].pending_trade) <= 1)
    /\ [][\A b \in BotIds :
            IsSome(bots[b].pending_trade) =>
                /\ ~Executed(b)
                /\ \/ bots'[b].pending_trade = bots[b].pending_trade
                   \/ /\ bots'[b].pending_trade = None
                      /\ SettledNow(b)
                      /\ PositionOf(LastTrade(bots'[b])) = Get(bots[b].pending_trade)]_vars

\* A strategy holding a Position of one window has seen an enterable tick of
\* another window, which it has not traded, and skipped it.
C1_Witness ==
    \E b \in BotIds :
        /\ IsSome(bots[b].pending_trade)
        /\ IsSome(last_tick)
        /\ Get(bots[b].pending_trade).window_id # Get(last_tick).window_id
        /\ Get(last_tick).window_id \notin bots[b].traded_windows
        /\ Get(last_tick).mins_left = 90
        /\ Get(last_tick).yes_ask = 60
        /\ bots[b].last_skip_reason = "Already has pending trade"

\* C2: Execute is applied to a strategy only on a tick whose window id is not
\* yet in its traded-window set, it puts that id into the set, and the set
\* never loses an id: no window is the target of a second Execute.
C2_OneExecutePerWindow ==
    [][\A b \in BotIds :
          /\ bots[b].traded_windows \subseteq bots'[b].traded_windows
          /\ Executed(b) =>
                /\ Get(last_tick').window_id \notin bots[b].traded_windows
                /\ bots'[b].traded_windows =
                      bots[b].traded_windows \cup {Get(last_tick').window_id}]_vars

\* A strategy whose Position of window w is settled has seen a further
\* enterable tick of w and skipped it.
C2_Witness ==
    \E b \in BotIds :
        /\ ~IsSome(bots[b].pending_trade)
        /\ IsSome(last_tick)
        /\ Len(bots[b].trades) > 0
        /\ LastTrade(bots[b]).window_id = Get(last_tick).window_id
        /\ Get(last_tick).mins_left = 90
        /\ Get(last_tick).yes_ask = 60
        /\ bots[b].last_skip_reason = "Already traded this window"

\* C3: a step settles a trade only of a window that is not in the settled
\* set before the step and is in it after; the settled set never loses a
\* window.  So no window triggers Settle twice.
C3_SettledOnce ==
    [][/\ settled_windows \subseteq settled_windows'
       /\ \A b \in BotIds :
            SettledNow(b) =>
                /\ Len(bots'[b].trades) = Len(bots[b].trades) + 1
                /\ LastTrade(bots'[b]).window_id \notin settled_windows
                /\ LastTrade(bots'[b]).window_id \in settled_windows']_vars

\* A closing tick of an already settled window arrived while a strategy held
\* a pending Position of that window.
C3_Witness ==
    \E b \in BotIds :
        /\ IsSome(bots[b].pending_trade)
        /\ IsSome(last_tick)
        /\ Get(bots[b].pending_trade).window_id = Get(last_tick).window_id
        /\ Get(last_tick).mins_left < 5
        /\ Get(last_tick).window_id \in settled_windows
        /\ bots[b].trades = <<>>

\* C4: bankroll is the initial bankroll plus the profits of the settled
\* trades of the history, also while a Position is pending (opening it left
\* the bankroll alone).
C4_BankrollIsSumOfProfits ==
    \A b \in BotIds :
        bots[b].bankroll = bots[b].initial_bankroll + SumProfit(bots[b].trades)

\* A strategy with a settled trade in its history and a newly opened Position.
C4_Witness ==
    \E b \in BotIds :
        /\ Len(bots[b].trades) > 0
        /\ IsSome(bots[b].pending_trade)
        /\ bots[b].bankroll # bots[b].initial_bankroll

\* C5: after a tick has been processed no strategy holds a pending Position
\* of an earlier window than the tick's (window ids are ordered by the
\* window's start time).
C5_NoPositionOfEarlierWindow ==
    \A b \in BotIds :
        IsSome(bots[b].pending_trade) /\ IsSome(last_tick) =>
            ~(Get(bots[b].pending_trade).window_id < Get(last_tick).window_id)

\* C6: the strike recorded for a window id never changes, so every tick of
\* that id is stamped with the asset price of the first tick of the id.
C6_StrikeNeverChanges ==
    [][\A w \in DOMAIN window_strikes :
          /\ w \in DOMAIN window_strikes'
          /\ window_strikes'[w] = window_strikes[w]]_vars

\* A step of run() ingested a tick.
Ingested == tick_count' = tick_count + 1
\* The outcome of the window read off a closing tick.
OutcomeOf(tick) == IF tick.btc_price > tick.strike_price THEN "YES" ELSE "NO"

\* C7: a step that ingests a tick of window w with minutes-remaining below
\* 0.5 while w is not in the settled set settles every Position pending in
\* w, with the outcome read off that tick, and ends with w in the settled set.
C7_ClosingTickSettles ==
    [][(/\ Ingested
        /\ Get(last_tick').mins_left < 5
        /\ Get(last_tick').window_id \notin settled_windows)
       => /\ Get(last_tick').window_id \in settled_windows'
          /\ \A b \in BotIds :
                (/\ IsSome(bots[b].pending_trade)
                 /\ Get(bots[b].pending_trade).window_id = Get(last_tick').window_id)
                => /\ bots'[b].pending_trade = None
                   /\ Len(bots'[b].trades) = Len(bots[b].trades) + 1
                   /\ PositionOf(LastTrade(bots'[b])) = Get(bots[b].pending_trade)
                   /\ (LastTrade(bots'[b]).outcome = "win") <=>
                         (Get(bots[b].pending_trade).direction = OutcomeOf(Get(last_tick')))]_vars

\* The second tick of a run closed the window of the first and settled the
\* Position a strategy had opened on the first.
C7_Witness ==
    \E b \in BotIds :
        /\ tick_count = 2
        /\ Len(bots[b].trades) = 1
        /\ LastTrade(bots[b]).window_id = Get(last_tick).window_id
        /\ Get(last_tick).mins_left < 5
        /\ Get(last_tick).window_id \in settled_windows
        /\ bots[b].pending_trade = None

\* The ledger of a bot: everything but last_skip_reason.
Ledger(bot) ==
    [ f \in (DOMAIN bot) \ {"last_skip_reason"} |-> bot[f] ]

\* C8: a step that ingests a tick with minutes-remaining below 0.5 of a
\* window already in the settled set changes neither the settled set nor
\* the ledger of any strategy.
C8_ReplayedClosingTickIsNoOp ==
    [][(/\ Ingested
        /\ Get(last_tick').mins_left < 5
        /\ Get(last_tick').window_id \in settled_windows)
       => /\ settled_windows' = settled_windows
          /\ \A b \in BotIds : Ledger(bots'[b]) = Ledger(bots[b])]_vars

\* A closing tick of window w was processed by a strategy after its Position
\* of w had been settled (it skipped the tick as one of a traded window).
C8_Witness ==
    \E b \in BotIds :
        /\ IsSome(last_tick)
        /\ Get(last_tick).mins_left < 5
        /\ Get(last_tick).window_id \in settled_windows
        /\ Len(bots[b].trades) > 0
        /\ LastTrade(bots[b]).window_id = Get(last_tick).window_id
        /\ bots[b].last_skip_reason = "Already traded this window"

C10_SettleLedger ==
    [][\A b \in BotIds :
          SettledNow(b) =>
            /\ IsSome(bots[b].pending_trade)
            /\ LET pos == Get(bots[b].pending_trade)
                   won == (pos.direction = OutcomeOf(Get(last_tick')))
                   profit == IF won
                             THEN pos.contracts * UnitsPerDollar - pos.bet_size - pos.fee
                             ELSE 0 - pos.bet_size - pos.fee
               IN  /\ bots'[b].bankroll = bots[b].bankroll + profit
                   /\ bots'[b].total_fees = bots[b].total_fees + pos.fee
                   /\ bots'[b].wins = bots[b].wins + (IF won THEN 1 ELSE 0)
                   /\ bots'[b].losses = bots[b].losses + (IF won THEN 0 ELSE 1)
                   /\ bots'[b].trades =
                         Append(bots[b].trades,
                                [ f \in DOMAIN pos \cup {"outcome", "profit", "bankroll_after"} |->
                                    CASE f = "outcome" -> IF won THEN "win" ELSE "loss"
                                      [] f = "profit" -> profit
                                      [] f = "bankroll_after" -> bots[b].bankroll + profit
                                      [] OTHER -> pos[f] ])
                   /\ bots'[b].pending_trade = None]_vars

\* One closing tick settled a won trade of one strategy and a lost trade of
\* another.
C10_Witness ==
    \E b1, b2 \in BotIds :
        /\ Len(bots[b1].trades) = 1
        /\ Len(bots[b2].trades) = 1
        /\ LastTrade(bots[b1]).outcome = "win"
        /\ LastTrade(bots[b1]).profit > 0
        /\ bots[b1].bankroll > bots[b1].initial_bankroll
        /\ LastTrade(bots[b2]).outcome = "loss"
        /\ bots[b2].bankroll < bots[b2].initial_bankroll
        /\ LastTrade(bots[b1]).window_id = LastTrade(bots[b2]).window_id

\* C11: for every strategy in every reachable state, wins + losses equals
\* the length of its trade history, and the trade count the snapshot reports
\* for it (total_trades of get_stats) equals both.
C11_CountersMatchHistory ==
    \A b \in BotIds :
        /\ bots[b].wins + bots[b].losses = Len(bots[b].trades)
        /\ get_stats(bots[b]).total_trades = Len(bots[b].trades)
        /\ get_stats(bots[b]).total_trades = bots[b].wins + bots[b].losses

\* A strategy with a won and a lost trade in its history.
C11_Witness ==
    \E b \in BotIds :
        /\ bots[b].wins >= 1
        /\ bots[b].losses >= 1
        /\ Len(bots[b].trades) = 2

\* A call of process_tick for a bot of the given series has returned.
Decided(series) ==
    /\ call_op = "process_tick"
    /\ IsSome(call_result)
    /\ get_series(call_args.bot.bot_id) = series
\* The side price-versus-strike chooses on a tick, and its ask.
SideByStrike(tick) == IF tick.btc_price > tick.strike_price THEN "YES" ELSE "NO"
AskOf(tick, side) == IF side = "YES" THEN tick.yes_ask ELSE tick.no_ask
Unencumbered(bot, tick) ==
    /\ bot.pending_trade = None
    /\ tick.window_id \notin bot.traded_windows

\* C12: a Fixed-Minute strategy returns Enter(direction, price, edge) on a
\* tick exactly when it has no pending Position, the tick's window is not in
\* its traded set, minutes-remaining is within 0.5 of 14 - target_minute,
\* the ask of the side chosen by price-versus-strike is between 1 and 99,
\* edge = true_probability - price/100 is at least min_edge, and the price
\* does not exceed the configured maximum; otherwise it skips.
C12_FixedMinuteEntry ==
    Decided("fixed_minute") =>
        LET bot == call_args.bot
            tick == call_args.tick
            config == bot.config
            side == SideByStrike(tick)
            price == AskOf(tick, side)
            edge == config.true_probability - 10 * price
            accepts ==
                /\ Unencumbered(bot, tick)
                /\ 10 * (14 - config.target_minute) - 5 <= tick.mins_left
                /\ tick.mins_left <= 10 * (14 - config.target_minute) + 5
                /\ 1 <= price /\ price <= 99
                /\ edge >= config.min_edge
                /\ price <= config.max_price_cents
        IN  Get(call_result).decision =
                IF accepts
                THEN Some([direction |-> side, price |-> price, edge |-> Some(edge)])
                ELSE None

\* The scenario of C12: target minute 5 (true probability 0.804, min
\* edge 0.03), 9.0 minutes remaining, up ask 60, price above the strike:
\* Enter(up, 60, 0.204).
C12_Witness ==
    /\ Decided("fixed_minute")
    /\ call_args.bot = LiveBotState(<<"s1", "fixed_min_5">>, ALL_BOTS[<<"s1", "fixed_min_5">>])
    /\ ALL_BOTS[<<"s1", "fixed_min_5">>].true_probability = 804
    /\ ALL_BOTS[<<"s1", "fixed_min_5">>].min_edge = 30
    /\ call_args.tick = CallTick(1, 90, 101, <<60, 40>>)
    /\ Get(call_result).decision =
           Some([direction |-> "YES", price |-> 60, edge |-> Some(204)])

\* C13: a Dynamic-Edge strategy returns Enter on a tick exactly when it has
\* no pending Position, the window is not in its traded set,
\* 1 <= minutes-remaining <= 14 - min_wait, current_minute =
\* trunc(14 - minutes-remaining) lies in 1..13 and has a persistence-table
\* value, the ask of the side chosen by price-versus-strike is between 1 and
\* 99, and table_value(current_minute) - price/100 is at least min_edge;
\* otherwise it skips.  With min_wait 3, 12.0 minutes remaining is a Skip.
C13_DynamicEdgeEntry ==
    Decided("dynamic_edge") =>
        LET bot == call_args.bot
            tick == call_args.tick
            config == bot.config
            side == SideByStrike(tick)
            price == AskOf(tick, side)
            current_minute == IntTrunc(140 - tick.mins_left, 10)
            in_table == current_minute \in DOMAIN PERSISTENCE_BY_MINUTE
            edge == PERSISTENCE_BY_MINUTE[current_minute] - 10 * price
            accepts ==
                /\ Unencumbered(bot, tick)
                /\ 10 <= tick.mins_left
                /\ tick.mins_left <= 10 * (14 - config.min_wait_minutes)
                /\ 1 <= current_minute /\ current_minute <= 13
                /\ in_table
                /\ 1 <= price /\ price <= 99
                /\ edge >= config.min_edge
        IN  /\ Get(call_result).decision =
                  IF accepts
                  THEN Some([direction |-> side, price |-> price, edge |-> Some(edge)])
                  ELSE None
            /\ (config.min_wait_minutes = 3 /\ tick.mins_left = 120)
                  => Get(call_result).decision = None

\* A new min_wait 3 strategy skips at 12.0 minutes remaining a tick it
\* would otherwise take (edge 0.684 - 0.50 over a min edge of 0.05).
C13_Witness ==
    /\ Decided("dynamic_edge")
    /\ call_args.bot = LiveBotState(<<"s2", "dynamic_wait3_edge5">>,
                                    ALL_BOTS[<<"s2", "dynamic_wait3_edge5">>])
    /\ ALL_BOTS[<<"s2", "dynamic_wait3_edge5">>].min_wait_minutes = 3
    /\ call_args.tick = CallTick(1, 120, 101, <<50, 50>>)
    /\ Get(call_result).decision = None
    /\ Get(call_result).bot.pending_trade = None

\* A Dynamic-Edge strategy enters at the last admitted moment, 1.0 minute
\* remaining (minute 13).
C13_WitnessEnter ==
    /\ Decided("dynamic_edge")
    /\ call_args.tick.mins_left = 10
    /\ IsSome(Get(call_result).decision)
    /\ Get(Get(call_result).decision).edge =
           Some(PERSISTENCE_BY_MINUTE[13] - 10 * Get(Get(call_result).decision).price)

\* C14: a Sentiment strategy returns Enter on a tick exactly when it has no
\* pending Position, the window is not in its traded set,
\* 0.5 <= minutes-remaining <= 14 - min_wait, both asks are non-zero, and
\* the selected side's ask (the up side if its ask reaches the odds
\* threshold, otherwise the down side if its ask does) is below 100.  The
\* decision carries no edge.
C14_SentimentEntry ==
    Decided("sentiment") =>
        LET bot == call_args.bot
            tick == call_args.tick
            config == bot.config
            up_selected == tick.yes_ask >= config.odds_threshold
            down_selected == ~up_selected /\ tick.no_ask >= config.odds_threshold
            side == IF up_selected THEN "YES" ELSE "NO"
            accepts ==
                /\ Unencumbered(bot, tick)
                /\ 5 <= tick.mins_left
                /\ tick.mins_left <= 10 * (14 - config.min_wait_minutes)
                /\ tick.yes_ask # 0 /\ tick.no_ask # 0
                /\ up_selected \/ down_selected
                /\ AskOf(tick, side) < 100
        IN  Get(call_result).decision =
                IF accepts
                THEN Some([direction |-> side, price |-> AskOf(tick, side), edge |-> None])
                ELSE None

\* The scenario of C14: threshold 70, up ask 72, down ask 30:
\* Enter(up, 72, edge absent).
C14_Witness ==
    /\ Decided("sentiment")
    /\ call_args.bot.config.odds_threshold = 70
    /\ call_args.tick.yes_ask = 72
    /\ call_args.tick.no_ask = 30
    /\ Get(call_result).decision =
           Some([direction |-> "YES", price |-> 72, edge |-> None])

\* A call of process_tick has returned and the bot opened a Position in it.
Opened ==
    /\ call_op = "process_tick"
    /\ IsSome(call_result)
    /\ IsSome(Get(call_result).decision)
    /\ IsSome(Get(call_result).bot.pending_trade)
OpenedPosition == Get(Get(call_result).bot.pending_trade)

\* C15 as stated: for every policy variant the direction of every Position
\* opened is determined by price versus strike on the entry tick: the up
\* side exactly when the tick's asset price is strictly greater than the
\* window strike, the down side otherwise, priced at that side's ask.
C15_DirectionByStrike ==
    Opened =>
        /\ OpenedPosition.direction = SideByStrike(call_args.tick)
        /\ OpenedPosition.entry_price =
               AskOf(call_args.tick, SideByStrike(call_args.tick))

\* C15 amended: a Position opened by a Fixed-Minute or a Dynamic-Edge
\* strategy backs the up side exactly when the tick's asset price is
\* strictly greater than the window strike and the down side otherwise; a
\* Position opened by a Sentiment strategy backs the up side exactly when
\* the up ask reaches the odds threshold and the down side otherwise,
\* whatever the asset price; each is priced at the ask of the side it backs.
C15_DirectionByStrikeOrOdds ==
    Opened =>
        LET tick == call_args.tick
            bot_id == call_args.bot.bot_id
            side == IF get_series(bot_id) = "sentiment"
                    THEN IF tick.yes_ask >= call_args.bot.config.odds_threshold
                         THEN "YES" ELSE "NO"
                    ELSE SideByStrike(tick)
        IN  /\ OpenedPosition.direction = side
            /\ OpenedPosition.entry_price = AskOf(tick, side)
            /\ OpenedPosition.window_id = tick.window_id

\* A Sentiment strategy opens an up Position at the up ask on a tick whose
\* asset price is below the strike.
C15_Witness ==
    /\ Opened
    /\ get_series(call_args.bot.bot_id) = "sentiment"
    /\ call_args.tick.btc_price < call_args.tick.strike_price
    /\ OpenedPosition.direction = "YES"
    /\ OpenedPosition.entry_price = call_args.tick.yes_ask

\* The ask a policy would trade at is 0 or at least 100: for Fixed-Minute
\* and Dynamic-Edge the ask of the side price-versus-strike chooses; for
\* Sentiment either ask being 0, or the ask of the side the odds threshold
\* selects being at least 100.
PriceUnavailable(bot, tick) ==
    IF get_series(bot.bot_id) = "sentiment"
    THEN \/ tick.yes_ask = 0
         \/ tick.no_ask = 0
         \/ tick.yes_ask >= 100
         \/ /\ tick.yes_ask < bot.config.odds_threshold
            /\ tick.no_ask >= 100
    ELSE \/ AskOf(tick, SideByStrike(tick)) = 0
         \/ AskOf(tick, SideByStrike(tick)) >= 100

\* C16: every Position opened, by any policy variant, has an entry price
\* between 1 and 99 cents inclusive: a tick whose relevant ask is 0 or at
\* least 100 yields a Skip and changes no ledger state.
C16_EntryPriceInRange ==
    (call_op = "process_tick" /\ IsSome(call_result)) =>
        /\ Opened =>
              /\ 1 <= OpenedPosition.entry_price
              /\ OpenedPosition.entry_price <= 99
        /\ PriceUnavailable(call_args.bot, call_args.tick) =>
              /\ Get(call_result).decision = None
              /\ Ledger(Get(call_result).bot) = Ledger(call_args.bot)

\* A new Sentiment strategy, inside its entry time, skips a tick whose up
\* ask is 100 or more although the down ask reaches its threshold.
C16_Witness ==
    /\ call_op = "process_tick" /\ IsSome(call_result)
    /\ get_series(call_args.bot.bot_id) = "sentiment"
    /\ call_args.bot = LiveBotState(call_args.bot.bot_id, call_args.bot.config)
    /\ call_args.tick.mins_left = 20
    /\ call_args.tick.yes_ask >= 100
    /\ call_args.tick.no_ask >= call_args.bot.config.odds_threshold
    /\ Get(call_result).decision = None
    /\ Get(call_result).bot.pending_trade = None
    /\ Get(call_result).bot.total_wagered = 0

\* C17: Execute on (strategy, tick, decision) stores a pending Position
\* carrying the tick's window id and the decision's direction and price with
\* contract count floor(bet / (price/100)), adds the tick's window id to the
\* strategy's traded-window set, and increases total wagered by exactly the
\* bet; bankroll, history, win/loss counters and streaks are unchanged.
C17_ExecuteLedger ==
    Opened =>
        LET before == call_args.bot
            after == Get(call_result).bot
            tick == call_args.tick
            decision == Get(Get(call_result).decision)
            pos == OpenedPosition
            \* the price of one contract in money units
            contract_price == pos.entry_price * (UnitsPerDollar \div 100)
        IN  /\ before.pending_trade = None
            /\ pos.window_id = tick.window_id
            /\ pos.direction = decision.direction
            /\ pos.entry_price = decision.price
            /\ pos.contracts * contract_price <= pos.bet_size
            /\ pos.bet_size < (pos.contracts + 1) * contract_price
            /\ after.traded_windows = before.traded_windows \cup {tick.window_id}
            /\ after.total_wagered = before.total_wagered + pos.bet_size
            /\ pos.bet_size > 0
            /\ after.bankroll = before.bankroll
            /\ after.initial_bankroll = before.initial_bankroll
            /\ after.trades = before.trades
            /\ after.wins = before.wins
            /\ after.losses = before.losses
            /\ after.total_fees = before.total_fees
            /\ after.current_streak = before.current_streak
            /\ after.max_win_streak = before.max_win_streak
            /\ after.max_loss_streak = before.max_loss_streak

\* A strategy that has settled a lost trade of another window opens a
\* Position of 16 contracts for a bet of 10 at 60 cents.
C17_Witness ==
    /\ Opened
    /\ call_args.bot.traded_windows = {2}
    /\ call_args.bot.losses = 1
    /\ OpenedPosition.entry_price = 60
    /\ OpenedPosition.bet_size = 10 * UnitsPerDollar
    /\ OpenedPosition.contracts = 16
    /\ Get(call_result).bot.traded_windows = {1, 2}
    /\ Get(call_result).bot.total_wagered = 20 * UnitsPerDollar
    /\ Get(call_result).bot.bankroll = call_args.bot.bankroll

\* An amount of money in cents; bets are whole cents.
Cents(amount) == amount \div (UnitsPerDollar \div 100)
\* clamp((edge - 0.10) / 0.20, 0, 1) in two-hundredths, edge in thousandths.
ClampedScale(edge) ==
    IF edge <= 100 THEN 0 ELSE IF edge >= 300 THEN 200 ELSE edge - 100
\* base + clamp((edge - 0.10)/0.20, 0, 1) * (max - base) is the bet.
OnRamp(config, edge, bet) ==
    /\ bet = Cents(bet) * (UnitsPerDollar \div 100)
    /\ 200 * (Cents(bet) - Cents(config.base_bet_size)) =
           ClampedScale(edge) * (Cents(config.max_bet_size) - Cents(config.base_bet_size))

\* C18: for a strategy with edge-scaling enabled the bet is
\* base + clamp((edge - 0.10)/0.20, 0, 1) * (max - base): non-decreasing in
\* edge, base for every edge <= 0.10, max for every edge >= 0.30, always in
\* [base, max]; for a strategy without edge-scaling the bet is the
\* descriptor's fixed bet amount whatever the edge.  The bet of a Position
\* opened is that amount for the edge of its decision.
C18_BetSize ==
    /\ (call_op = "bet_size" /\ IsSome(call_result)) =>
          LET config == call_args.config
              bet == Get(call_result)
          IN  IF config.scale_with_edge
              THEN /\ config.base_bet_size <= bet
                   /\ bet <= config.max_bet_size
                   /\ IsSome(call_args.edge) =>
                         LET edge == Get(call_args.edge)
                         IN  /\ OnRamp(config, edge, bet)
                             /\ edge <= 100 => bet = config.base_bet_size
                             /\ edge >= 300 => bet = config.max_bet_size
                             /\ \A higher \in CallEdges :
                                   (IsSome(higher) /\ Get(higher) >= edge) =>
                                       bet_size_of(config,
                                           [direction |-> "YES", price |-> 50,
                                            edge |-> higher]) >= bet
              ELSE bet = config.bet_size
    /\ Opened =>
          LET config == call_args.bot.config
              pos == OpenedPosition
          IN  IF config.scale_with_edge
              THEN IsSome(pos.edge) /\ OnRamp(config, Get(pos.edge), pos.bet_size)
              ELSE pos.bet_size = config.bet_size

\* An edge of 0.20, half-way up the ramp, gives a bet of 30 between the
\* base of 10 and the maximum of 50.
C18_Witness ==
    /\ call_op = "bet_size" /\ IsSome(call_result)
    /\ call_args.config.scale_with_edge
    /\ call_args.config.base_bet_size = 10 * UnitsPerDollar
    /\ call_args.config.max_bet_size = 50 * UnitsPerDollar
    /\ call_args.edge = Some(200)
    /\ Get(call_result) = 30 * UnitsPerDollar

\* A scaled strategy opens a Position with a bet strictly between base and
\* maximum.
C18_WitnessPosition ==
    /\ Opened
    /\ call_args.bot.config.scale_with_edge
    /\ OpenedPosition.bet_size > 10 * UnitsPerDollar
    /\ OpenedPosition.bet_size < 50 * UnitsPerDollar

C20_Independent ==
    \A b \in DOMAIN solo :
        /\ DOMAIN solo[b].bots = {b}
        /\ solo[b].bots[b] = bots[b]

\* Two strategies run together have gone different ways: one has settled a
\* trade of a window the other did not trade, and the other then opened a
\* Position of that window.
C20_Witness ==
    \E b1 \in DOMAIN solo : \E b2 \in DOMAIN solo :
        /\ b1 # b2
        /\ Len(bots[b1].trades) = 1
        /\ bots[b2].trades = <<>>
        /\ IsSome(bots[b2].pending_trade)
        /\ Get(bots[b2].pending_trade).window_id = bots[b1].trades[1].window_id
        /\ solo[b2].bots[b2] = bots[b2]

\* A cycle of run() that changed what the tick source last returned.
PolledAnew == last_fetch' # last_fetch

\* The latest fetch gave no tick, or a tick without mins_left.
NothingToIngest(fetch) ==
    \/ ~IsSome(fetch)
    \/ ~IsSome(Get(fetch).mins_left)

\* C21: a polling cycle in which the tick source returns no tick, or a tick
\* whose minutes-remaining is absent, changes no strategy state, no window
\* strike, not the current window and not the settled set, and is not
\* counted as an ingested tick; the engine continues with the next cycle.
C21_InvalidCycleChangesNothing ==
    [][ PolledAnew /\ NothingToIngest(last_fetch')
        => /\ UNCHANGED <<bots, window_strikes, current_window,
                          settled_windows, tick_count, last_tick>>
           /\ process' = "up" ]_vars

\* The latest cycle fetched a tick without mins_left, of another window
\* than the current one, while a Position is pending.
C21_Witness ==
    /\ IsSome(last_fetch)
    /\ ~IsSome(Get(last_fetch).mins_left)
    /\ IsSome(current_window)
    /\ current_window # Some(Get(last_fetch).window_id)
    /\ \E b \in DOMAIN bots : IsSome(bots[b].pending_trade)
    /\ process = "up"

\* C22: whenever the running engine receives a shutdown signal, in
\* worker-only mode and in combined worker-plus-dashboard mode alike,
\* exactly one final snapshot pass is performed and written before the
\* process exits: an exited process has made one shutdown pass, and
\* STATE_FILE holds the snapshot of the engine as it was left.
C22_OneFinalSnapshot ==
    process = "exited"
        => /\ shutdown_passes = 1
           /\ STATE_FILE =
                Some(save_state(Engine(LiveWorker(bots, settled_windows,
                                                  window_strikes, current_window),
                                       tick_count, last_tick, last_window)))

\* C23: building a snapshot (get_stats / save_state), including the final
\* pass at shutdown, changes no engine state: every strategy's bankroll,
\* pending Position, history, traded set and counters, the settled set and
\* the strike map are the same before and after the pass, so a Position
\* pending at shutdown stays pending and is not settled.
C23_SnapshotChangesNoState ==
    [][ shutdown_passes' # shutdown_passes
        => /\ UNCHANGED <<bots, settled_windows, window_strikes,
                          current_window, tick_count, last_tick>>
           /\ STATE_FILE' =
                Some(save_state(Engine(LiveWorker(bots, settled_windows,
                                                  window_strikes, current_window),
                                       tick_count, last_tick, last_window))) ]_vars

\* The final pass has been made while a Position was pending: it is still
\* pending, unsettled, and the snapshot shows it as pending.
C23_Witness ==
    /\ shutdown_passes = 1
    /\ process = "exited"
    /\ \E b \in DOMAIN bots :
        /\ IsSome(bots[b].pending_trade)
        /\ bots[b].trades = <<>>
        /\ Get(STATE_FILE).bots[b].stats.pending
        /\ Get(STATE_FILE).bots[b].stats.total_trades = 0
        /\ Get(STATE_FILE).bots[b].pending_trade = bots[b].pending_trade

\* The policy of the bot returns Skip on the tick this step ingests.
Skipped(b) == ~IsSome(check_entry(bots[b], Get(last_tick')).trade_info)

\* C24: the ledger is mutated only by Execute and Settle: on any tick for
\* which a strategy's policy returns Skip and which does not settle that
\* strategy's pending Position, the strategy's bankroll, pending Position,
\* history, traded-window set, win/loss counters, streaks, total wagered
\* and total fees are unchanged; only the last-skip-reason may change.  A
\* step that ingests no tick changes no ledger either.
C24_LedgerFrame ==
    [][\A b \in DOMAIN bots :
          (~Ingested \/ (Skipped(b) /\ ~SettledNow(b)))
              => Ledger(bots'[b]) = Ledger(bots[b])]_vars

\* A strategy holding a Position skipped the latest tick for that reason,
\* while another skipped it for the reason it had skipped before.
C24_Witness ==
    /\ tick_count = 2
    /\ \E b \in DOMAIN bots :
        /\ IsSome(bots[b].pending_trade)
        /\ bots[b].last_skip_reason = "Already has pending trade"
    /\ \E b \in DOMAIN bots :
        /\ ~IsSome(bots[b].pending_trade)
        /\ bots[b].trades = <<>>
        /\ bots[b].last_skip_reason # "None"

\* The history before the step is the beginning of the history after it.
HistoryKept(b) ==
    /\ Len(bots'[b].trades) >= Len(bots[b].trades)
    /\ SubSeq(bots'[b].trades, 1, Len(bots[b].trades)) = bots[b].trades

\* C25: a strategy's trade history is append-only: each Settle of a pending
\* Position appends exactly one SettledTrade at the end of the history, and
\* no operation ever changes, reorders or removes a record already in the
\* history.
C25_HistoryAppendOnly ==
    [][\A b \in DOMAIN bots :
          /\ HistoryKept(b)
          /\ Len(bots'[b].trades) <= Len(bots[b].trades) + 1
          /\ (IsSome(bots[b].pending_trade)
              /\ bots'[b].pending_trade # bots[b].pending_trade)
                => /\ Len(bots'[b].trades) = Len(bots[b].trades) + 1
                   /\ PositionOf(LastTrade(bots'[b]))
                        = PositionOf(Get(bots[b].pending_trade))
          /\ Len(bots'[b].trades) = Len(bots[b].trades) + 1
                => IsSome(bots[b].pending_trade) ]_vars

\* A second trade has been appended behind the first.
C25_Witness ==
    \E b \in DOMAIN bots :
        /\ Len(bots[b].trades) = 2
        /\ bots[b].trades[1].window_id # bots[b].trades[2].window_id

\* The current minute of a tick as the engine computes it: int(14 - mins_left).
CurrentMinute(tick) == IntTrunc(140 - tick.mins_left, 10)
OpenedByFixedMinute ==
    /\ Opened
    /\ get_series(call_args.bot.bot_id) = "fixed_minute"

C27_BacksTheFavorite ==
    (Opened /\ get_series(call_args.bot.bot_id) = "sentiment")
        => LET tick == call_args.tick
               backed == OpenedPosition.direction
               other == IF backed = "YES" THEN "NO" ELSE "YES"
           IN  /\ tick.yes_ask # 0 /\ tick.no_ask # 0
               /\ AskOf(tick, backed) > AskOf(tick, other)

\* C28: every tick handed to the Decision Engine and to the Settlement
\* Resolver carries the strike stored by the Window Tracker for the tick's
\* window id, whatever strike value (including 0) was embedded in the
\* incoming tick: the tick of the step is stamped with the stored strike,
\* a Position opened in the step records it, and a Position settled in the
\* step is won exactly when its side is the outcome against it.
C28_TickCarriesStoredStrike ==
    [][Ingested =>
        LET tick == Get(last_tick')
            w == tick.window_id
        IN  /\ w \in DOMAIN window_strikes'
            /\ tick.strike_price = window_strikes'[w]
            /\ \A b \in DOMAIN bots :
                /\ Executed(b)
                     => Get(bots'[b].pending_trade).strike = window_strikes'[w]
                /\ SettledNow(b)
                     => ((LastTrade(bots'[b]).outcome = "win")
                         <=> (LastTrade(bots'[b]).direction
                                = OutcomeOf([btc_price |-> tick.btc_price,
                                             strike_price |-> window_strikes'[w]])))
      ]_vars

\* A Position entered at the stored strike 100 has been settled as won on a
\* closing tick whose price 101 is above that strike; the fetched tick
\* carried the strike 0.
C28_Witness ==
    /\ IsSome(last_tick) /\ IsSome(last_fetch)
    /\ Get(last_fetch).strike_price = 0
    /\ Get(last_tick).strike_price = 100
    /\ Get(last_tick).btc_price = 101
    /\ window_strikes[Get(last_tick).window_id] = 100
    /\ \E b \in DOMAIN bots :
        /\ Len(bots[b].trades) = 1
        /\ bots[b].trades[1].window_id = Get(last_tick).window_id
        /\ bots[b].trades[1].strike = 100
        /\ bots[b].trades[1].direction = "YES"
        /\ bots[b].trades[1].outcome = "win"

\* The length of the run of equal outcomes that ends the history.
RECURSIVE TrailingRun(_)
TrailingRun(trades) ==
    IF trades = <<>> THEN 0
    ELSE IF Len(trades) = 1 THEN 1
    ELSE IF trades[Len(trades)].outcome = trades[Len(trades) - 1].outcome
         THEN 1 + TrailingRun(SubSeq(trades, 1, Len(trades) - 1))
         ELSE 1
\* The length of the longest run of consecutive trades of the outcome.
RECURSIVE LongestRun(_, _)
LongestRun(trades, outcome) ==
    IF trades = <<>> THEN 0
    ELSE Max(LongestRun(SubSeq(trades, 1, Len(trades) - 1), outcome),
             IF trades[Len(trades)].outcome = outcome
             THEN TrailingRun(trades) ELSE 0)

\* C29: after any sequence of settlements, a strategy's current streak
\* equals the signed length of the trailing run of equal outcomes in its
\* history (positive for wins, negative for losses, 0 only when the history
\* is empty), max win streak equals the longest run of consecutive wins and
\* max loss streak the longest run of consecutive losses in the history.
C29_Streaks ==
    \A b \in DOMAIN bots :
        LET trades == bots[b].trades
        IN  /\ bots[b].current_streak =
                 IF trades = <<>> THEN 0
                 ELSE IF LastTrade(bots[b]).outcome = "win"
                      THEN TrailingRun(trades)
                      ELSE -TrailingRun(trades)
            /\ (bots[b].current_streak = 0) <=> (trades = <<>>)
            /\ bots[b].max_win_streak = LongestRun(trades, "win")
            /\ bots[b].max_loss_streak = LongestRun(trades, "loss")

\* A history win, win, loss, loss, win: the streak is 1 while the longest
\* runs are 2 and 2.
C29_Witness ==
    \E b \in DOMAIN bots :
        /\ Len(bots[b].trades) = 5
        /\ [i \in 1..5 |-> bots[b].trades[i].outcome]
             = <<"win", "win", "loss", "loss", "win">>
        /\ bots[b].current_streak = 1
        /\ bots[b].max_win_streak = 2
        /\ bots[b].max_loss_streak = 2

\* C30: Settle applied to a strategy with no pending Position is a no-op:
\* it returns no trade and leaves bankroll, counters, streaks, totals and
\* history unchanged.
C30_SettleWithoutPendingIsNoOp ==
    (/\ call_op = "settle_trade"
     /\ IsSome(call_result)
     /\ ~IsSome(call_args.bot.pending_trade))
        => /\ Get(call_result).trade = None
           /\ Get(call_result).bot = call_args.bot

\* Settle has been applied to a strategy that has a settled trade, a loss
\* streak and no pending Position.
C30_Witness ==
    /\ call_op = "settle_trade"
    /\ IsSome(call_result)
    /\ ~IsSome(call_args.bot.pending_trade)
    /\ Len(call_args.bot.trades) = 1
    /\ call_args.bot.current_streak = -1
    /\ Get(call_result).bot.current_streak = -1
    /\ Get(call_result).trade = None

SettleWindowCalled ==
    /\ call_op = "settle_window"
    /\ IsSome(call_result)
\* The bot holds a Position of the window.
PendingIn(bot, window_id) ==
    /\ IsSome(bot.pending_trade)
    /\ Get(bot.pending_trade).window_id = window_id

\* C31: settling window w changes only strategies whose pending Position
\* has window id w: every strategy with no pending Position, or with a
\* pending Position in a different window, has exactly the same state after
\* settle_window(w) as before.
C31_SettleWindowFrame ==
    SettleWindowCalled =>
        /\ DOMAIN Get(call_result).bots = DOMAIN call_args.bots
        /\ \A b \in DOMAIN call_args.bots :
            ~PendingIn(call_args.bots[b], call_args.window_id)
                => Get(call_result).bots[b] = call_args.bots[b]

\* settle_window(1) settled the Position one strategy held in window 1 and
\* left alone a strategy holding a Position of window 2 and a strategy
\* without a Position.
C31_Witness ==
    /\ SettleWindowCalled
    /\ call_args.window_id = 1
    /\ \E b1, b2, b3 \in DOMAIN call_args.bots :
        /\ PendingIn(call_args.bots[b1], 1)
        /\ ~IsSome(Get(call_result).bots[b1].pending_trade)
        /\ Len(Get(call_result).bots[b1].trades) = 1
        /\ PendingIn(call_args.bots[b2], 2)
        /\ PendingIn(Get(call_result).bots[b2], 2)
        /\ ~IsSome(call_args.bots[b3].pending_trade)
        /\ Get(call_result).bots[b3] = call_args.bots[b3]

\* C32: no strategy of the configured registry (Fixed-Minute targets 1..13,
\* Dynamic-Edge, Sentiment) opens a Position on a tick whose
\* minutes-remaining is below 0.5; hence a Position is never opened and
\* settled while processing the same tick: what settle_window would settle on
\* that tick is what was pending before it.
C32_NoEntryOnClosingTick ==
    (/\ call_op = "process_tick"
     /\ IsSome(call_result)
     /\ call_args.tick.mins_left < 5)
        => /\ Get(call_result).decision = None
           /\ Ledger(Get(call_result).bot) = Ledger(call_args.bot)

\* The Sentiment strategy of threshold 55 with nothing pending saw the up
\* ask at 60 with 0.4 minutes remaining and skipped, while the Fixed-Minute
\* strategy of target 13 can still enter at 0.5 minutes remaining.
C32_Witness ==
    /\ call_op = "process_tick"
    /\ IsSome(call_result)
    /\ call_args.bot = LiveBotState(<<"s3", "sentiment_odds55_wait3">>,
                                    ALL_BOTS[<<"s3", "sentiment_odds55_wait3">>])
    /\ call_args.tick = CallTick(1, 4, 101, <<60, 40>>)
    /\ Get(call_result).decision = None
    /\ Get(call_result).bot.last_skip_reason = "Window ending (<30 sec left)"
    /\ IsSome(check_entry(LiveBotState(<<"s1", "fixed_min_13">>,
                                       ALL_BOTS[<<"s1", "fixed_min_13">>]),
                          CallTick(1, 5, 101, <<60, 40>>)).trade_info)

\* The window outcome a settled trade was resolved with.
ResultOf(trade) ==
    IF (trade.direction = "YES") = (trade.outcome = "win") THEN "YES" ELSE "NO"

\* C33: with minutes-remaining non-increasing over the ticks of each window
\* id, no strategy ever holds a pending Position whose window id is in the
\* settled set.
C33_NoPositionInSettledWindow ==
    \A b \in BotIds :
        IsSome(bots[b].pending_trade) =>
            Get(bots[b].pending_trade).window_id \notin settled_windows

\* A tick of an already settled window, with an ask a strategy that has not
\* traded the window would take, came in after the window's closing tick
\* (its outcome differs from the one the window was settled with).
C33_Witness ==
    /\ IsSome(last_tick)
    /\ Get(last_tick).window_id \in settled_windows
    /\ Get(last_tick).mins_left < 5
    /\ Get(last_tick).yes_ask = 60
    /\ \E b \in BotIds : Get(last_tick).window_id \notin bots[b].traded_windows
    /\ \E b \in BotIds : \E i \in 1..Len(bots[b].trades) :
          /\ bots[b].trades[i].window_id = Get(last_tick).window_id
          /\ ResultOf(bots[b].trades[i]) # OutcomeOf(Get(last_tick))
    /\ \E b \in BotIds :
          /\ IsSome(bots[b].pending_trade)
          /\ Get(bots[b].pending_trade).window_id # Get(last_tick).window_id

\* The trade records of a strategy: its history, then its pending Position.
Records(bot) == bot.trades \o bot.pending_trade

\* C34: for every strategy, the window id of its pending Position and of
\* every SettledTrade of its history is in its traded-window set, no two of
\* these records share a window id, and the size of the traded-window set is
\* the history length plus the number of pending Positions.
C34_TradedWindowsMatchRecords ==
    \A b \in BotIds :
        /\ IsSome(bots[b].pending_trade) =>
              Get(bots[b].pending_trade).window_id \in bots[b].traded_windows
        /\ \A i \in 1..Len(bots[b].trades) :
              bots[b].trades[i].window_id \in bots[b].traded_windows
        /\ \A i, j \in 1..Len(Records(bots[b])) :
              Records(bots[b])[i].window_id = Records(bots[b])[j].window_id => i = j
        /\ Cardinality(bots[b].traded_windows) =
              Len(bots[b].trades) + Len(bots[b].pending_trade)

\* A strategy with a settled trade of one window and a pending Position of
\* another, on a later tick of the first window that it does not re-enter.
C34_Witness ==
    \E b \in BotIds :
        /\ Len(bots[b].trades) = 1
        /\ IsSome(bots[b].pending_trade)
        /\ Cardinality(bots[b].traded_windows) = 2
        /\ Get(last_tick).window_id = bots[b].trades[1].window_id
        /\ Get(last_tick).mins_left > 5

RECURSIVE Sum(_, _)
\* The sum of field f over a sequence of trade records.
Sum(records, f) ==
    IF records = <<>> THEN 0
    ELSE records[1][f] + Sum(Tail(records), f)

\* C35: for every strategy, total wagered is the sum of the bets of the
\* SettledTrades of its history plus the bet of its pending Position, and
\* total fees is the sum of the fees of the SettledTrades of its history.
C35_TotalsMatchRecords ==
    \A b \in BotIds :
        /\ bots[b].total_wagered = Sum(Records(bots[b]), "bet_size")
        /\ bots[b].total_fees = Sum(bots[b].trades, "fee")

\* A strategy with a settled trade and a pending Position, and another
\* whose settled trade paid a different fee.
C35_Witness ==
    \E b1, b2 \in BotIds :
        /\ Len(bots[b1].trades) = 1
        /\ IsSome(bots[b1].pending_trade)
        /\ bots[b1].total_wagered > bots[b1].trades[1].bet_size
        /\ bots[b1].total_fees = bots[b1].trades[1].fee
        /\ bots[b1].total_fees > 0
        /\ Len(bots[b2].trades) = 1
        /\ bots[b2].trades[1].fee # bots[b1].trades[1].fee

\* C36: a Position is settled against the strike it was entered at: in a
\* step that settles a pending Position, the strike of the closing tick, from
\* which the window outcome is computed, is the strike recorded in the
\* Position, whatever the order of the window ids of the ticks.
C36_SettledAgainstEntryStrike ==
    [][\A b \in BotIds :
          SettledNow(b) =>
            Get(last_tick').strike_price = Get(bots[b].pending_trade).strike]_vars

\* C37: in combined mode, however one save_state pass and one load_state
\* call interleave, load_state returns None or the complete state dict of
\* one save_state pass (the one that wrote the file before, or this one),
\* never a cut or mixed text taken for a snapshot.
C37_LoadReturnsOneSnapshotOrNone ==
    load_pc = "done" =>
        \/ load_result = None
        \/ load_result = snapshots.old
        \/ load_result = Some(snapshots.new)

====
